---------------------------- MODULE Spec2Model ----------------------------
(***************************************************************************)
(* Model of the interruptible batch splitting engine of                    *)
(* audible-to-itunes-orchestrator:                                         *)
(*   src/audible_to_itunes/splitter.py          perform_split              *)
(*   src/audible_to_itunes/processing_state.py  ProcessingState, SIGINT    *)
(*   src/audible_to_itunes/ffmpeg.py            run_ffmpeg                 *)
(*                                                                         *)
(* Seven specifications share the variables:                               *)
(*   Spec        one catalog item through perform_split, with the SIGINT   *)
(*               handler and the delegated subprocess interleaved, and a   *)
(*               following run over the same disk;                         *)
(*   QuietSpec   the same with no SIGINT, for probed and catalog durations *)
(*               on both sides of the threshold;                           *)
(*   PlanSpec    the split loop's boundary computation and                 *)
(*               calc_actual_parts on bounded inputs;                      *)
(*   MetaSpec    the source resolution and one segment's metadata, for any *)
(*               author fields and chapters;                               *)
(*   TrackerSpec arbitrary sequences of ProcessingState operations, with   *)
(*               os.remove failing on any set of paths;                    *)
(*   BatchSpec   the loop of _process_books over several books, with       *)
(*               perform_split reduced to the value it returns;            *)
(*   SanitizeSpec the entry of perform_split for any title.                *)
(*                                                                         *)
(* Time is counted in whole units; "x < limit * 1.1" is 10*x < 11*limit.   *)
(* (With the default SPLIT_LIMIT_HRS = 10 the float product 36000 * 1.1    *)
(* is exactly 39600.0, so the comparison is the exact one.)                *)
(* Outside TrackerSpec every os.remove is taken to succeed; the log        *)
(* callback does not raise.                                                *)
(***************************************************************************)
EXTENDS Integers, Sequences, FiniteSets, TLC

VARIABLES
    input_file,         \* resolve_book_path + os.path.exists: "none" | "missing" | "ok"
    book,               \* the catalog entry's author fields (AuthorNames, Author)
    title,              \* book.get("Title", "Unknown Title"), as a sequence of characters
    probed_duration,    \* get_duration_from_file(input_file): 0 when the probe fails
    LengthInMinutes,    \* book.get("LengthInMinutes", 0)
    duration,           \* effective duration of the item (splitter.py:40-43)
    SPLIT_LIMIT_SECS,   \* config.py:14
    chapters,           \* get_chapters_from_file: sequence of [StartOffset |-> n]
    pc,                 \* position of the main thread
    run,                \* 1 = first run of the program, 2 = the following run
    result,             \* value returned by perform_split ("none" while running)
    prev_result,        \* result of the previous run ("none" in the first)
    stop_requested,     \* ProcessingState.stop_requested
    current_book_files, \* ProcessingState.current_book_files (list)
    in_progress_files,  \* ProcessingState.in_progress_files (list)
    current_process,    \* ProcessingState.current_process is not None
    disk,               \* set of paths that exist on disk
    proc,               \* delegated subprocess: "none" | "running" | "exited"
    returncode,         \* proc.returncode once exited
    proc_wrote,         \* the subprocess has opened (created) its output file
    call,               \* which run_ffmpeg call is active: "none" | "extract" | "mux"
    success,            \* first component of run_ffmpeg's return value
    current_start,      \* splitter.py:150
    end_time,           \* splitter.py:172-184
    part_num,           \* splitter.py:151
    total_parts,        \* splitter.py:112
    all_parts_created,  \* splitter.py:147
    created_files,      \* splitter.py:148
    segments,           \* the (current_start, end_time) pairs the loop has emitted
    broke,              \* the InterruptedError handler executed `break`
    hstack,             \* positions of the active _signal_handler invocations
    signals,            \* SIGINTs delivered in this run
    first_signal,       \* [pc, part]: main-thread position at the first SIGINT
    written,            \* paths created or overwritten by this perform_split call
    total,              \* orchestrator.py:163, len(liberated_books)
    book_idx,           \* number of books the for loop of orchestrator.py:191 has taken
    completed,          \* orchestrator.py:160
    failed,             \* orchestrator.py:161
    skipped,            \* orchestrator.py:162
    failed_books,       \* orchestrator.py:164 (books named by their index)
    stopped_early,      \* orchestrator.py:190
    outcomes,           \* the values perform_split has returned to the loop, in order
    extract_calls,      \* run_ffmpeg(ffmpeg_extract) calls made for this item
    mux_calls,          \* run_ffmpeg(ffmpeg_mux) calls made for this item
    tool_failed,        \* a run_ffmpeg call returned failure with no stop requested
    seg_raised,         \* the `except Exception` of splitter.py:316 has run
    chapters_probed,    \* get_chapters_from_file was called (splitter.py:141)
    meta,               \* what was last written to temp_meta.txt (artist, chapter blocks)
    reported,           \* paths of the "Failed to delete" messages printed by the cleanups
    safe_title          \* splitter.py:22, sanitize_filename(title)

vars == <<input_file, book, probed_duration, LengthInMinutes, duration,
          SPLIT_LIMIT_SECS, chapters, pc, run, result,
          prev_result, stop_requested, current_book_files, in_progress_files,
          current_process, disk, proc, returncode, proc_wrote, call, success,
          current_start, end_time, part_num, total_parts, all_parts_created,
          created_files, segments, broke, hstack, signals, first_signal, written,
          total, book_idx, completed, failed, skipped, failed_books, stopped_early,
          outcomes,
          extract_calls, mux_calls, tool_failed, seg_raised, chapters_probed,
          meta, reported, title, safe_title>>

inputVars == <<input_file, book, title, probed_duration, LengthInMinutes,
               SPLIT_LIMIT_SECS, chapters>>
trackerVars == <<current_book_files, in_progress_files>>
procVars == <<proc, returncode, proc_wrote>>
loopVars == <<current_start, end_time, part_num, total_parts, all_parts_created,
              created_files, segments, broke>>
sigVars == <<hstack, signals, first_signal>>
runVars == <<run, prev_result>>
batchVars ==
    <<total, book_idx, completed, failed, skipped, failed_books, stopped_early,
      outcomes>>
historyVars ==
    <<extract_calls, mux_calls, tool_failed, seg_raised, chapters_probed>>
outputVars == <<meta, reported, safe_title>>

-----------------------------------------------------------------------------
(* Bounds *)

MaxPlanDuration == 8    \* PlanSpec: durations 1..MaxPlanDuration
MaxPlanLimit == 3       \* PlanSpec: split limits 1..MaxPlanLimit
MaxPlanChapters == 2    \* PlanSpec: chapter lists of up to this length
MaxPlanOffset == 9      \* PlanSpec: chapter offsets 0..MaxPlanOffset
MaxSignals == 2         \* Spec: SIGINTs delivered per run
MaxRuns == 2            \* Spec: runs of the program over the same disk
MaxPreexisting == 1     \* Spec: part files left on disk by an earlier run
MaxTracked == 3         \* TrackerSpec: length of the tracker's lists
MaxMetaOffset == 4      \* MetaSpec: chapter offsets 0..MaxMetaOffset (half ms)
MaxMetaLength == 2      \* MetaSpec: chapter lengths 0..MaxMetaLength (half ms)
MaxMetaChapters == 2    \* MetaSpec: chapter lists of up to this length
MaxBooks == 3           \* BatchSpec: books in the batch
MaxTitleLen == 3        \* SanitizeSpec: titles of up to this many characters

\* Cap of the loop counter (never reached: every segment is at least one unit long).
MaxParts == MaxPlanDuration + 2

-----------------------------------------------------------------------------
(* Paths *)

temp_audio == <<"temp_chunk.m4b", 0>>
meta_file == <<"temp_meta.txt", 0>>
\* os.path.join(OUTPUT_FOLDER, f"{safe_title}.m4b")
WholeFile == <<"T.m4b", 0>>
\* os.path.join(OUTPUT_FOLDER, f"{safe_title} - Part {i}.m4b")
PartFile(i) == <<"T - Part.m4b", i>>

NoSignal == [pc |-> "none", part |-> 0]

\* A value of the catalog's JSON: a missing key, null, a string, a list of strings
Absent == [kind |-> "absent", text |-> "", items |-> <<>>]
Null == [kind |-> "null", text |-> "", items |-> <<>>]
Str(s) == [kind |-> "str", text |-> s, items |-> <<>>]
List(l) == [kind |-> "list", text |-> "", items |-> l]

\* Python's truth value of such a value: book.get(key) in an `if`
Truthy(v) ==
    IF v.kind = "str" THEN v.text # ""
    ELSE IF v.kind = "list" THEN v.items # <<>>
    ELSE FALSE

\* file_utils.py:9: the characters of the class [\\/*?:"<>|]
InvalidChars == {"\\", "/", "*", "?", ":", "\"", "<", ">", "|"}

\* re.sub with count=1: only the first match is removed
RECURSIVE sanitize_first_match(_)
sanitize_first_match(name) ==
    IF name = <<>> THEN <<>>
    ELSE IF Head(name) \in InvalidChars THEN Tail(name)
    ELSE <<Head(name)>> \o sanitize_first_match(Tail(name))

\* file_utils.py:7-9: re.sub scans the name from the left and replaces every
\* match of the class by the empty string
RECURSIVE sanitize_filename(_)
sanitize_filename(name) ==
    IF name = <<>> THEN <<>>
    ELSE IF Head(name) \in InvalidChars THEN sanitize_filename(Tail(name))
    ELSE <<Head(name)>> \o sanitize_filename(Tail(name))

\* The title of the item where the title plays no part: "T"
PlainTitle == <<"T">>

\* The catalog entry of the item where the author plays no part
PlainBook == [AuthorNames |-> Str("A"), Author |-> Absent]

\* temp_meta.txt before anything is written to it
NoMeta == [artist |-> "", blocks |-> <<>>]

Range(s) == {s[i] : i \in 1..Len(s)}
Contains(s, x) == \E i \in 1..Len(s) : s[i] = x
SeqsUpTo(S, n) == UNION {[1..k -> S] : k \in 0..n}
Abs(x) == IF x < 0 THEN -x ELSE x

-----------------------------------------------------------------------------
(* Partition planning: splitter.py:99-112 and 168-184 *)

\* The comparison without the 10% buffer: x < limit
BelowLimit(x, limit) == x < limit

\* x < limit * 1.1
BelowBuffer(x, limit) == 10 * x < 11 * limit

\* x <= limit * 1.1
WithinBuffer(x, limit) == 10 * x <= 11 * limit

RECURSIVE calc_loop(_, _, _, _)
calc_loop(dur, limit, pos, parts) ==
    IF ~(pos < dur) THEN parts
    ELSE IF BelowBuffer(dur - pos, limit) THEN parts + 1
    ELSE calc_loop(dur, limit, pos + limit, parts + 1)

Max(a, b) == IF a >= b THEN a ELSE b

calc_actual_parts(dur, limit) == Max(1, calc_loop(dur, limit, 0, 0))

\* splitter.py:40-43: the probed duration, or the catalog's when the probe gave 0
\* The probed duration taken as it is, with no fallback to the catalog
effective_duration_unchecked(probed, minutes) == probed

effective_duration(probed, minutes) == IF probed = 0 THEN minutes * 60 ELSE probed

\* The last of the chapters at minimal distance, where min() returns the first
best_chap_last(chs, target) ==
    LET d(i) == Abs(chs[i].StartOffset - target)
        best == CHOOSE i \in 1..Len(chs) :
                    /\ \A j \in 1..Len(chs) : d(i) <= d(j)
                    /\ \A j \in (i + 1)..Len(chs) : d(j) > d(i)
    IN chs[best]

\* min(chapters, key=lambda c: abs(c["StartOffset"] - target)): the first minimal one
best_chap(chs, target) ==
    LET d(i) == Abs(chs[i].StartOffset - target)
        best == CHOOSE i \in 1..Len(chs) :
                    /\ \A j \in 1..Len(chs) : d(i) <= d(j)
                    /\ \A j \in 1..(i - 1) : d(j) > d(i)
    IN chs[best]

\* The boundary without the progress guard: the nearest chapter is taken as it is
progress_guard_off(chosen, start, target) == chosen

\* The progress guard of splitter.py:181-182
progress_guard(chosen, start, target) == IF chosen <= start THEN target ELSE chosen

\* end_time of the segment that starts at `start` (splitter.py:168-184)
segment_end(dur, limit, chs, start) ==
    LET target_split == start + limit
    IN IF BelowBuffer(dur - start, limit) THEN dur
       ELSE IF chs # <<>>
            THEN progress_guard(best_chap(chs, target_split).StartOffset, start, target_split)
            ELSE target_split

-----------------------------------------------------------------------------
(* ProcessingState: processing_state.py:10-90.  The operators take and      *)
(* return the tracker as a record [cb, ip] (current_book_files,             *)
(* in_progress_files); the cleanups also take and return the disk.          *)

Tracker == [cb |-> current_book_files, ip |-> in_progress_files]

\* list.remove(x): drops the first occurrence
list_remove(s, x) ==
    LET i == CHOOSE k \in 1..Len(s) : s[k] = x /\ \A j \in 1..(k - 1) : s[j] # x
    IN SubSeq(s, 1, i - 1) \o SubSeq(s, i + 1, Len(s))

start_book(t) == [cb |-> <<>>, ip |-> <<>>]

\* add_file without lines 32-33: the path stays in in_progress_files
add_file_keeps_in_progress(t, f) == [cb |-> Append(t.cb, f), ip |-> t.ip]

add_file(t, f) ==
    [cb |-> Append(t.cb, f),
     ip |-> IF Contains(t.ip, f) THEN list_remove(t.ip, f) ELSE t.ip]

start_file(t, f) ==
    [cb |-> t.cb,
     ip |-> IF ~Contains(t.ip, f) THEN Append(t.ip, f) ELSE t.ip]

finish_file(t, f) ==
    [cb |-> t.cb,
     ip |-> IF Contains(t.ip, f) THEN list_remove(t.ip, f) ELSE t.ip]

\* The loop with no try/except around the removal: the first os.remove that
\* fails ends the loop and leaves the cleanup
RECURSIVE remove_each_unguarded(_, _, _)
remove_each_unguarded(files, d, locked) ==
    IF files = <<>> THEN [disk |-> d, reported |-> {}, raised |-> FALSE]
    ELSE LET f == Head(files)
         IN IF f \in d /\ f \in locked
            THEN [disk |-> d, reported |-> {}, raised |-> TRUE]
            ELSE remove_each_unguarded(Tail(files), d \ {f}, locked)

\* processing_state.py:64-70 and 83-89: for each path of the list, os.remove
\* when it exists; os.remove raises OSError on the paths in `locked`, and the
\* except clause prints the failure and goes on with the next path
RECURSIVE remove_each(_, _, _)
remove_each(files, d, locked) ==
    IF files = <<>> THEN [disk |-> d, reported |-> {}, raised |-> FALSE]
    ELSE LET f == Head(files)
             fails == f \in d /\ f \in locked
             rest == remove_each(Tail(files), IF fails THEN d ELSE d \ {f}, locked)
         IN [disk |-> rest.disk,
             reported |-> IF fails THEN rest.reported \cup {f} ELSE rest.reported,
             raised |-> rest.raised]

\* processing_state.py:62-71; line 71 is reached when the loop raised nothing
cleanup_in_progress(t, d, locked) ==
    LET r == remove_each(t.ip, d, locked)
    IN [cb |-> t.cb, ip |-> IF r.raised THEN t.ip ELSE <<>>, disk |-> r.disk,
        reported |-> r.reported, raised |-> r.raised]

\* processing_state.py:73-90
cleanup_current_book(t, d, locked) ==
    LET a == cleanup_in_progress(t, d, locked)
        b == remove_each(a.cb, a.disk, locked)
    IN IF a.raised \/ a.cb = <<>> THEN a
       ELSE [cb |-> IF b.raised THEN a.cb ELSE <<>>, ip |-> a.ip, disk |-> b.disk,
             reported |-> a.reported \cup b.reported, raised |-> b.raised]

-----------------------------------------------------------------------------
(* The metadata of a segment: splitter.py:232-266.  In MetaSpec the chapter  *)
(* offsets and lengths are counted in half milliseconds (ffprobe prints      *)
(* microseconds), so that int(x * 1000) has something to cut off.            *)

\* file_utils.py:41 and 46: author.lower() is called on a truthy AuthorNames,
\* and only a string has that method
resolve_raises(b) == Truthy(b.AuthorNames) /\ b.AuthorNames.kind # "str"

\* splitter.py:238-246
author(b) ==
    IF Truthy(b.AuthorNames)
    THEN IF b.AuthorNames.kind = "list"
         THEN b.AuthorNames.items[1]
         ELSE b.AuthorNames.text
    ELSE IF Truthy(b.Author) THEN b.Author.text
    ELSE "Unknown"

\* int(x * 1000) for x counted in half milliseconds: truncation towards zero
int_ms(x) == IF x >= 0 THEN x \div 2 ELSE -((-x) \div 2)

\* splitter.py:250-254
\* The filter with both ends included: start <= StartOffset <= end
part_chapters_closed(chs, start, end) ==
    SelectSeq(chs, LAMBDA c : start <= c.StartOffset /\ c.StartOffset <= end)

part_chapters(chs, start, end) ==
    SelectSeq(chs, LAMBDA c : start <= c.StartOffset /\ c.StartOffset < end)

\* splitter.py:258-265
chapter_block(c, start) ==
    LET c_start_ms == int_ms(c.StartOffset - start)
        c_length_ms == int_ms(c.LengthInSeconds)
        c_end_ms == c_start_ms + c_length_ms
    IN [START |-> IF c_start_ms > 0 THEN c_start_ms ELSE 0, END |-> c_end_ms]

\* splitter.py:232-266: what is written to temp_meta.txt
metadata(b, chs, start, end) ==
    LET part == part_chapters(chs, start, end)
    IN [artist |-> author(b),
        blocks |-> [i \in 1..Len(part) |-> chapter_block(part[i], start)]]

-----------------------------------------------------------------------------
(* TrackerSpec: any sequence of tracker operations on any paths *)

\* orchestrator.py:160-164 and 190, for a catalog of n books
BatchStart(n) ==
    /\ total = n /\ book_idx = 0
    /\ completed = 0 /\ failed = 0 /\ skipped = 0
    /\ failed_books = <<>> /\ stopped_early = FALSE /\ outcomes = <<>>

\* Nothing has been called for the item yet
HistoryStart ==
    /\ extract_calls = 0 /\ mux_calls = 0
    /\ tool_failed = FALSE /\ seg_raised = FALSE
    /\ chapters_probed = FALSE

TrackerPaths == {temp_audio, meta_file, PartFile(1)}

\* Values of the variables a specification does not use
Unused ==
    /\ input_file = "ok" /\ duration = 0 /\ SPLIT_LIMIT_SECS = 1 /\ chapters = <<>>
    /\ book = PlainBook /\ probed_duration = 0 /\ LengthInMinutes = 0
    /\ meta = NoMeta /\ reported = {}
    /\ title = PlainTitle /\ safe_title = <<>>
    /\ run = 1 /\ result = "none" /\ prev_result = "none"
    /\ stop_requested = FALSE /\ current_process = FALSE
    /\ proc = "none" /\ returncode = 0 /\ proc_wrote = FALSE
    /\ call = "none" /\ success = FALSE
    /\ current_start = 0 /\ end_time = 0 /\ part_num = 1 /\ total_parts = 0
    /\ all_parts_created = TRUE /\ created_files = <<>> /\ segments = <<>>
    /\ broke = FALSE /\ hstack = <<>> /\ signals = 0 /\ first_signal = NoSignal
    /\ written = {}
    /\ BatchStart(1)
    /\ HistoryStart

TrackerInit ==
    /\ Unused
    /\ pc = "tracker"
    /\ current_book_files = <<>>
    /\ in_progress_files = <<>>
    /\ disk \in SUBSET TrackerPaths

TrackerFrame ==
    UNCHANGED <<inputVars, duration, meta, safe_title, pc, runVars, batchVars,
                historyVars, result, stop_requested, current_process,
                procVars, call, success, loopVars, sigVars, written>>

SetTracker(t) ==
    /\ current_book_files' = t.cb
    /\ in_progress_files' = t.ip

OpStartBook ==
    /\ SetTracker(start_book(Tracker))
    /\ UNCHANGED <<disk, reported>> /\ TrackerFrame

OpStartFile(f) ==
    /\ Len(in_progress_files) < MaxTracked
    /\ SetTracker(start_file(Tracker, f))
    /\ UNCHANGED <<disk, reported>> /\ TrackerFrame

OpAddFile(f) ==
    /\ Len(current_book_files) < MaxTracked
    /\ SetTracker(add_file(Tracker, f))
    /\ UNCHANGED <<disk, reported>> /\ TrackerFrame

OpFinishFile(f) ==
    /\ SetTracker(finish_file(Tracker, f))
    /\ UNCHANGED <<disk, reported>> /\ TrackerFrame

\* The cleanups, with os.remove failing on any set of paths
OpCleanupInProgress ==
    /\ \E locked \in SUBSET TrackerPaths :
          LET r == cleanup_in_progress(Tracker, disk, locked)
          IN /\ SetTracker(r)
             /\ disk' = r.disk
             /\ reported' = reported \cup r.reported
    /\ TrackerFrame

OpCleanupCurrentBook ==
    /\ \E locked \in SUBSET TrackerPaths :
          LET r == cleanup_current_book(Tracker, disk, locked)
          IN /\ SetTracker(r)
             /\ disk' = r.disk
             /\ reported' = reported \cup r.reported
    /\ TrackerFrame

TrackerNext ==
    \/ OpStartBook
    \/ \E f \in TrackerPaths : OpStartFile(f)
    \/ \E f \in TrackerPaths : OpAddFile(f)
    \/ \E f \in TrackerPaths : OpFinishFile(f)
    \/ OpCleanupInProgress
    \/ OpCleanupCurrentBook

TrackerSpec == TrackerInit /\ [][TrackerNext]_vars

-----------------------------------------------------------------------------
(* PlanSpec: the boundaries the split loop computes (no I/O, no signal) *)

PlanChapterLists ==
    SeqsUpTo({[StartOffset |-> o] : o \in 0..MaxPlanOffset}, MaxPlanChapters)

PlanInit ==
    /\ input_file = "ok"
    /\ book = PlainBook
    /\ probed_duration \in 1..MaxPlanDuration
    /\ LengthInMinutes = 0
    /\ duration = 0
    /\ meta = NoMeta /\ reported = {}
    /\ title = PlainTitle /\ safe_title = <<>>
    /\ SPLIT_LIMIT_SECS \in 1..MaxPlanLimit
    /\ chapters \in PlanChapterLists
    /\ pc = "probe"
    /\ run = 1 /\ result = "none" /\ prev_result = "none"
    /\ stop_requested = FALSE /\ current_process = FALSE
    /\ current_book_files = <<>> /\ in_progress_files = <<>> /\ disk = {}
    /\ proc = "none" /\ returncode = 0 /\ proc_wrote = FALSE
    /\ call = "none" /\ success = FALSE
    /\ current_start = 0 /\ end_time = 0 /\ part_num = 1 /\ total_parts = 0
    /\ all_parts_created = TRUE /\ created_files = <<>> /\ segments = <<>>
    /\ broke = FALSE /\ hstack = <<>> /\ signals = 0 /\ first_signal = NoSignal
    /\ written = {}
    /\ BatchStart(1)
    /\ HistoryStart

PlanFrame ==
    UNCHANGED <<inputVars, outputVars, runVars, batchVars, historyVars,
                result, stop_requested, trackerVars, current_process, disk,
                procVars, call, success, all_parts_created, created_files,
                broke, sigVars, written>>

\* splitter.py:46 and 112: copy-only, or count the parts and enter the loop
PlanDecide ==
    /\ pc = "probe"
    /\ LET d == effective_duration(probed_duration, LengthInMinutes)
       IN /\ duration' = d
          /\ IF WithinBuffer(d, SPLIT_LIMIT_SECS)
             THEN /\ pc' = "copy"
                  /\ UNCHANGED total_parts
             ELSE /\ pc' = "loop"
                  /\ total_parts' = calc_actual_parts(d, SPLIT_LIMIT_SECS)
    /\ UNCHANGED <<current_start, end_time, part_num, segments>>
    /\ PlanFrame

\* splitter.py:153, 168-187, 341-342: one iteration of the while loop
PlanStep ==
    /\ pc = "loop"
    /\ current_start < duration
    /\ part_num <= MaxParts
    /\ LET e == segment_end(duration, SPLIT_LIMIT_SECS, chapters, current_start)
       IN /\ end_time' = e
          /\ segments' = Append(segments, [start |-> current_start, end |-> e])
          /\ current_start' = e
    /\ part_num' = part_num + 1
    /\ UNCHANGED <<pc, total_parts, duration>>
    /\ PlanFrame

\* splitter.py:153: the loop condition fails
PlanDone ==
    /\ pc = "loop"
    /\ ~(current_start < duration)
    /\ pc' = "post"
    /\ UNCHANGED <<current_start, end_time, part_num, total_parts, segments,
                   duration>>
    /\ PlanFrame

PlanNext == PlanDecide \/ PlanStep \/ PlanDone

\* The loop is sequential code that keeps running: weak fairness of its steps.
PlanSpec == PlanInit /\ [][PlanNext]_vars /\ WF_vars(PlanNext)

-----------------------------------------------------------------------------
(* Spec: perform_split on one item, the SIGINT handler and the subprocess *)

ItemDurations == {2, 5}
ItemLimits == {2}
ItemChapterLists == {<<>>, <<[StartOffset |-> 3]>>}

\* Output files an earlier run may have left behind: the unsplit copy of an
\* item that is copied, the first parts of an item that is split
InitialDisks ==
    IF WithinBuffer(effective_duration(probed_duration, LengthInMinutes),
                    SPLIT_LIMIT_SECS)
    THEN {{}, {WholeFile}}
    ELSE {{PartFile(i) : i \in 1..j} : j \in 0..MaxPreexisting}

Init ==
    /\ input_file \in {"none", "missing", "ok"}
    /\ book = PlainBook
    /\ probed_duration \in ItemDurations
    /\ LengthInMinutes = 0
    /\ duration = 0
    /\ meta = NoMeta /\ reported = {}
    /\ title = PlainTitle /\ safe_title = <<>>
    /\ SPLIT_LIMIT_SECS \in ItemLimits
    /\ chapters \in ItemChapterLists
    /\ disk \in InitialDisks
    /\ pc = "b_check"
    /\ run = 1 /\ result = "none" /\ prev_result = "none"
    /\ stop_requested = FALSE /\ current_process = FALSE
    /\ current_book_files = <<>> /\ in_progress_files = <<>>
    /\ proc = "none" /\ returncode = 0 /\ proc_wrote = FALSE
    /\ call = "none" /\ success = FALSE
    /\ current_start = 0 /\ end_time = 0 /\ part_num = 1 /\ total_parts = 0
    /\ all_parts_created = TRUE /\ created_files = <<>> /\ segments = <<>>
    /\ broke = FALSE /\ hstack = <<>> /\ signals = 0 /\ first_signal = NoSignal
    /\ written = {}
    /\ BatchStart(1)
    /\ HistoryStart

\* The main thread runs only while no signal handler is executing
Main(at) == pc = at /\ hstack = <<>>

Return(r) == pc' = "returned" /\ result' = r

\* Every segment written under the name of the first part
output_name_first == PartFile(1)

\* splitter.py:186-187
output_name == PartFile(part_num)

\* orchestrator.py:191-195: the for loop takes the next book and checks the
\* stop flag
BatchCheck ==
    /\ Main("b_check")
    /\ IF book_idx = total
       THEN pc' = "b_done" /\ UNCHANGED <<book_idx, stopped_early>>
       ELSE IF stop_requested
       THEN pc' = "b_done" /\ stopped_early' = TRUE /\ book_idx' = book_idx + 1
       ELSE pc' = "b_call" /\ book_idx' = book_idx + 1 /\ UNCHANGED stopped_early
    /\ UNCHANGED <<inputVars, duration, outputVars, runVars, result,
                   stop_requested, trackerVars, current_process, disk,
                   procVars, call, success, loopVars, sigVars, written, total,
                   completed, failed, skipped, failed_books, outcomes,
                   historyVars>>

\* orchestrator.py:197-211: the progress display is updated and perform_split
\* is called
BatchCall ==
    /\ Main("b_call")
    /\ pc' = "start"
    /\ UNCHANGED <<inputVars, duration, outputVars, runVars, batchVars,
                   historyVars, result, stop_requested, trackerVars,
                   current_process, disk, procVars, call, success, loopVars,
                   sigVars, written>>

\* orchestrator.py:213-229: the outcome of perform_split is counted
Tally ==
    /\ Main("returned")
    /\ completed' = IF result \in {"success", "skipped"} THEN completed + 1 ELSE completed
    /\ failed' = IF result = "failed" THEN failed + 1 ELSE failed
    /\ failed_books' = IF result = "failed" THEN Append(failed_books, book_idx)
                       ELSE failed_books
    /\ skipped' = IF result = "skipped" THEN skipped + 1 ELSE skipped
    /\ stopped_early' = IF result = "stopped" THEN TRUE ELSE stopped_early
    /\ outcomes' = Append(outcomes, result)
    /\ pc' = IF result = "stopped" THEN "b_done" ELSE "b_check"
    /\ UNCHANGED <<inputVars, duration, outputVars, runVars, result,
                   stop_requested, trackerVars, current_process, disk,
                   procVars, call, success, loopVars, sigVars, written, total,
                   book_idx, historyVars>>

\* splitter.py:21-33 without the os.path.exists test of lines 35-37
BeginUnverified ==
    /\ Main("start")
    /\ safe_title' = sanitize_filename(title)
    /\ SetTracker(start_book(Tracker))
    /\ IF input_file # "none"
       THEN pc' = "probe" /\ UNCHANGED result
       ELSE Return("failed")
    /\ UNCHANGED <<inputVars, duration, meta, reported, runVars, batchVars,
                   historyVars, stop_requested, current_process, disk,
                   procVars, call, success, loopVars, sigVars, written>>

\* splitter.py:21-37 with a start_book that also clears the stop flag
BeginResetsStop ==
    /\ Main("start")
    /\ safe_title' = sanitize_filename(title)
    /\ SetTracker(start_book(Tracker))
    /\ stop_requested' = FALSE
    /\ IF resolve_raises(book)
       THEN pc' = "raised" /\ result' = "raised"
       ELSE IF input_file = "ok"
       THEN pc' = "probe" /\ UNCHANGED result
       ELSE Return("failed")
    /\ UNCHANGED <<inputVars, duration, meta, reported, runVars, batchVars,
                   historyVars, current_process, disk, procVars, call,
                   success, loopVars, sigVars, written>>

\* splitter.py:21-37; resolve_book_path is called at line 28
Begin ==
    /\ Main("start")
    /\ safe_title' = sanitize_filename(title)
    /\ SetTracker(start_book(Tracker))
    /\ IF resolve_raises(book)
       THEN pc' = "raised" /\ result' = "raised"
       ELSE IF input_file = "ok"
       THEN pc' = "probe" /\ UNCHANGED result
       ELSE Return("failed")
    /\ UNCHANGED <<inputVars, duration, meta, reported, runVars, batchVars,
                   historyVars, stop_requested, current_process, disk,
                   procVars, call, success, loopVars, sigVars, written>>

\* splitter.py:40-46
Decide ==
    /\ Main("probe")
    /\ LET d == effective_duration(probed_duration, LengthInMinutes)
       IN /\ duration' = d
          /\ pc' = IF WithinBuffer(d, SPLIT_LIMIT_SECS) THEN "copy_check"
                   ELSE "preflight"
    /\ UNCHANGED <<inputVars, outputVars, runVars, batchVars, historyVars,
                   result, stop_requested, trackerVars, current_process, disk,
                   procVars, call, success, loopVars, sigVars, written>>

\* splitter.py:48-53
CopyCheckExists ==
    /\ Main("copy_check")
    /\ IF WholeFile \in disk
       THEN Return("skipped")
       ELSE pc' = "copy_track" /\ UNCHANGED result
    /\ UNCHANGED <<inputVars, duration, outputVars, runVars, batchVars,
                   historyVars, stop_requested, trackerVars, current_process,
                   disk, procVars, call, success, loopVars, sigVars, written>>

\* splitter.py:67
CopyTrack ==
    /\ Main("copy_track")
    /\ SetTracker(start_file(Tracker, WholeFile))
    /\ pc' = "copy_open"
    /\ UNCHANGED <<inputVars, duration, outputVars, runVars, batchVars,
                   historyVars, result, stop_requested, current_process, disk,
                   procVars, call, success, loopVars, sigVars, written>>

\* splitter.py:69, shutil.copy2 opening the destination (or failing to)
CopyOpen ==
    /\ Main("copy_open")
    /\ \E ok \in BOOLEAN :
          IF ok
          THEN /\ disk' = disk \cup {WholeFile}
               /\ written' = written \cup {WholeFile}
               /\ pc' = "copying"
          ELSE /\ pc' = "copy_except"
               /\ UNCHANGED <<disk, written>>
    /\ UNCHANGED <<inputVars, duration, outputVars, runVars, batchVars,
                   historyVars, result, stop_requested, trackerVars,
                   current_process, procVars, call, success, loopVars, sigVars>>

\* splitter.py:69, shutil.copy2 writing the bytes and copying the file's stat:
\* it raises when the destination was deleted meanwhile, or on an I/O error
CopyWrite ==
    /\ Main("copying")
    /\ \E ok \in BOOLEAN :
          pc' = IF ok /\ WholeFile \in disk THEN "copy_finish" ELSE "copy_except"
    /\ UNCHANGED <<inputVars, duration, outputVars, runVars, batchVars,
                   historyVars, result, stop_requested, trackerVars,
                   current_process, disk, procVars, call, success, loopVars,
                   sigVars, written>>

\* splitter.py:70
CopyFinish ==
    /\ Main("copy_finish")
    /\ SetTracker(finish_file(Tracker, WholeFile))
    /\ pc' = "copy_stopcheck"
    /\ UNCHANGED <<inputVars, duration, outputVars, runVars, batchVars,
                   historyVars, result, stop_requested, current_process, disk,
                   procVars, call, success, loopVars, sigVars, written>>

\* splitter.py:71-75
CopyExcept ==
    /\ Main("copy_except")
    /\ SetTracker(finish_file(Tracker, WholeFile))
    /\ disk' = disk \ {WholeFile}
    /\ pc' = "copy_reraise"
    /\ UNCHANGED <<inputVars, duration, outputVars, runVars, batchVars,
                   historyVars, result, stop_requested, current_process,
                   procVars, call, success, loopVars, sigVars, written>>

\* splitter.py:76-78: "stopped", or the exception leaves perform_split
CopyReraise ==
    /\ Main("copy_reraise")
    /\ IF stop_requested
       THEN Return("stopped")
       ELSE pc' = "raised" /\ result' = "raised"
    /\ UNCHANGED <<inputVars, duration, outputVars, runVars, batchVars,
                   historyVars, stop_requested, trackerVars, current_process,
                   disk, procVars, call, success, loopVars, sigVars, written>>

\* splitter.py:80-84
CopyStopCheck ==
    /\ Main("copy_stopcheck")
    /\ IF stop_requested
       THEN disk' = disk \ {WholeFile} /\ Return("stopped")
       ELSE UNCHANGED <<disk, result>> /\ pc' = "copy_done"
    /\ UNCHANGED <<inputVars, duration, outputVars, runVars, batchVars,
                   historyVars, stop_requested, trackerVars, current_process,
                   procVars, call, success, loopVars, sigVars, written>>

\* splitter.py:86-95: os.path.getsize raises when the copy is gone
CopyDone ==
    /\ Main("copy_done")
    /\ IF WholeFile \in disk
       THEN Return("success")
       ELSE pc' = "raised" /\ result' = "raised"
    /\ UNCHANGED <<inputVars, duration, outputVars, runVars, batchVars,
                   historyVars, stop_requested, trackerVars, current_process,
                   disk, procVars, call, success, loopVars, sigVars, written>>

\* splitter.py:112-151 with the chapters read before the parts are looked for
PreflightProbesFirst ==
    /\ Main("preflight")
    /\ LET n == calc_actual_parts(duration, SPLIT_LIMIT_SECS)
       IN /\ total_parts' = n
          /\ chapters_probed' = TRUE
          /\ IF \A i \in 1..n : PartFile(i) \in disk
             THEN Return("skipped")
             ELSE pc' = "loop" /\ UNCHANGED result
    /\ all_parts_created' = TRUE
    /\ created_files' = <<>>
    /\ current_start' = 0
    /\ part_num' = 1
    /\ UNCHANGED <<inputVars, duration, outputVars, runVars, batchVars,
                   extract_calls, mux_calls, tool_failed, seg_raised,
                   stop_requested, trackerVars, current_process, disk,
                   procVars, call, success, end_time, segments, broke,
                   sigVars, written>>

\* splitter.py:112-151: the parts are counted and looked for; when one is
\* missing the chapters are read (line 141) and the loop is set up
Preflight ==
    /\ Main("preflight")
    /\ LET n == calc_actual_parts(duration, SPLIT_LIMIT_SECS)
       IN /\ total_parts' = n
          /\ IF \A i \in 1..n : PartFile(i) \in disk
             THEN Return("skipped") /\ UNCHANGED chapters_probed
             ELSE pc' = "loop" /\ chapters_probed' = TRUE /\ UNCHANGED result
    /\ all_parts_created' = TRUE
    /\ created_files' = <<>>
    /\ current_start' = 0
    /\ part_num' = 1
    /\ UNCHANGED <<inputVars, duration, outputVars, runVars, batchVars,
                   extract_calls, mux_calls, tool_failed, seg_raised,
                   stop_requested, trackerVars, current_process, disk,
                   procVars, call, success, end_time, segments, broke,
                   sigVars, written>>

\* delete_created without the os.remove: the parts created so far are kept
delete_created_skipped(d, files) == d

\* splitter.py:158-164 and 346-354: os.remove of every file in created_files
delete_created(d, files) == d \ Range(files)

\* splitter.py:153-187: loop condition, stop check, boundary of the next segment
LoopTop ==
    /\ Main("loop")
    /\ part_num <= MaxParts
    /\ IF ~(current_start < duration)
       THEN /\ pc' = "post"
            /\ UNCHANGED <<result, disk, current_book_files, end_time,
                           segments>>
       ELSE IF stop_requested
       THEN /\ disk' = delete_created(disk, created_files)
            /\ current_book_files' = <<>>
            /\ Return("stopped")
            /\ UNCHANGED <<end_time, segments>>
       ELSE LET e == segment_end(duration, SPLIT_LIMIT_SECS, chapters, current_start)
            IN /\ end_time' = e
               /\ segments' = Append(segments, [start |-> current_start, end |-> e])
               /\ pc' = "track"
               /\ UNCHANGED <<result, disk, current_book_files>>
    /\ UNCHANGED <<inputVars, duration, outputVars, runVars, batchVars,
                   historyVars, stop_requested, in_progress_files,
                   current_process, procVars, call, success, current_start,
                   part_num, total_parts, all_parts_created, created_files,
                   broke, sigVars, written>>

\* splitter.py:198-200, then the extract call of line 225
TrackFiles ==
    /\ Main("track")
    /\ SetTracker(start_file(start_file(start_file(Tracker, temp_audio), meta_file),
                             output_name))
    /\ call' = "extract"
    /\ extract_calls' = extract_calls + 1
    /\ pc' = "ff_check"
    /\ UNCHANGED <<inputVars, duration, outputVars, runVars, batchVars,
                   result, stop_requested, current_process, disk, procVars,
                   success, loopVars, sigVars, written, mux_calls,
                   tool_failed, seg_raised, chapters_probed>>

\* run_ffmpeg without lines 15-16: the subprocess is started whatever the flag
FfCheckStopIgnored ==
    /\ Main("ff_check")
    /\ pc' = "ff_popen"
    /\ UNCHANGED <<inputVars, duration, outputVars, runVars, batchVars,
                   historyVars, result, stop_requested, trackerVars,
                   current_process, disk, procVars, call, success, loopVars,
                   sigVars, written>>

\* ffmpeg.py:15-16
FfCheckStop ==
    /\ Main("ff_check")
    /\ IF stop_requested
       THEN success' = FALSE /\ pc' = "after_ffmpeg"
       ELSE UNCHANGED success /\ pc' = "ff_popen"
    /\ UNCHANGED <<inputVars, duration, outputVars, runVars, batchVars,
                   historyVars, result, stop_requested, trackerVars,
                   current_process, disk, procVars, call, loopVars, sigVars,
                   written>>

\* ffmpeg.py:19-25: the subprocess starts; or Popen raises (ffmpeg.py:43-45)
FfPopen ==
    /\ Main("ff_popen")
    /\ \E started \in BOOLEAN :
          IF started
          THEN /\ proc' = "running"
               /\ proc_wrote' = FALSE
               /\ pc' = "ff_setproc"
               /\ UNCHANGED <<current_process, success>>
          ELSE /\ current_process' = FALSE
               /\ success' = FALSE
               /\ pc' = "after_ffmpeg"
               /\ UNCHANGED <<proc, proc_wrote>>
    /\ UNCHANGED <<inputVars, duration, outputVars, runVars, batchVars,
                   historyVars, result, stop_requested, trackerVars, disk,
                   returncode, call, loopVars, sigVars, written>>

\* ffmpeg.py:26
FfSetProcess ==
    /\ Main("ff_setproc")
    /\ current_process' = TRUE
    /\ pc' = "ff_communicate"
    /\ UNCHANGED <<inputVars, duration, outputVars, runVars, batchVars,
                   historyVars, result, stop_requested, trackerVars, disk,
                   procVars, call, success, loopVars, sigVars, written>>

\* ffmpeg.py:28: communicate() returns once the subprocess has exited
FfCommunicate ==
    /\ Main("ff_communicate")
    /\ proc = "exited"
    /\ pc' = "ff_clearproc"
    /\ UNCHANGED <<inputVars, duration, outputVars, runVars, batchVars,
                   historyVars, result, stop_requested, trackerVars,
                   current_process, disk, procVars, call, success, loopVars,
                   sigVars, written>>

\* ffmpeg.py:29
FfClearProcess ==
    /\ Main("ff_clearproc")
    /\ current_process' = FALSE
    /\ pc' = "ff_result"
    /\ UNCHANGED <<inputVars, duration, outputVars, runVars, batchVars,
                   historyVars, result, stop_requested, trackerVars, disk,
                   procVars, call, success, loopVars, sigVars, written>>

\* ffmpeg.py:32-42
FfResult ==
    /\ Main("ff_result")
    /\ success' = (~stop_requested /\ returncode = 0)
    /\ proc' = "none"
    /\ pc' = "after_ffmpeg"
    /\ UNCHANGED <<inputVars, duration, outputVars, runVars, batchVars,
                   historyVars, result, stop_requested, trackerVars,
                   current_process, disk, returncode, proc_wrote, call,
                   loopVars, sigVars, written>>

\* splitter.py:226-229 leaving the loop on any failed call, as on a cancellation
AfterFfmpegBreaks ==
    /\ Main("after_ffmpeg")
    /\ IF ~success
       THEN /\ pc' = "interrupted"
            /\ tool_failed' = IF stop_requested THEN tool_failed ELSE TRUE
       ELSE /\ pc' = IF call = "extract" THEN "meta_open" ELSE "verify"
            /\ UNCHANGED tool_failed
    /\ UNCHANGED <<inputVars, duration, outputVars, runVars, batchVars,
                   extract_calls, mux_calls, seg_raised, chapters_probed,
                   result,
                   stop_requested, trackerVars, current_process, disk,
                   procVars, call, success, loopVars, sigVars, written>>

\* splitter.py:225-229 with one more attempt after a failed extract
AfterFfmpegRetries ==
    /\ Main("after_ffmpeg")
    /\ IF ~success /\ stop_requested
       THEN pc' = "interrupted" /\ UNCHANGED <<all_parts_created, tool_failed>>
       ELSE IF ~success /\ call = "extract" /\ extract_calls = Len(segments)
       THEN pc' = "track" /\ UNCHANGED <<all_parts_created, tool_failed>>
       ELSE /\ all_parts_created' = (all_parts_created /\ success)
            /\ tool_failed' = IF success THEN tool_failed ELSE TRUE
            /\ pc' = IF call = "extract" THEN "meta_open" ELSE "verify"
    /\ UNCHANGED <<inputVars, duration, outputVars, runVars, batchVars,
                   extract_calls, mux_calls, seg_raised, chapters_probed,
                   result,
                   stop_requested, trackerVars, current_process, disk,
                   procVars, call, success, current_start, end_time, part_num,
                   total_parts, created_files, segments, broke, sigVars,
                   written>>

\* splitter.py:225-229 (extract) and 288-292 (remux)
AfterFfmpeg ==
    /\ Main("after_ffmpeg")
    /\ IF ~success /\ stop_requested
       THEN pc' = "interrupted" /\ UNCHANGED <<all_parts_created, tool_failed>>
       ELSE /\ all_parts_created' = (all_parts_created /\ success)
            /\ tool_failed' = IF success THEN tool_failed ELSE TRUE
            /\ pc' = IF call = "extract" THEN "meta_open" ELSE "verify"
    /\ UNCHANGED <<inputVars, duration, outputVars, runVars, batchVars,
                   extract_calls, mux_calls, seg_raised, chapters_probed,
                   result,
                   stop_requested, trackerVars, current_process, disk,
                   procVars, call, success, current_start, end_time, part_num,
                   total_parts, created_files, segments, broke, sigVars,
                   written>>

\* splitter.py:232: open(meta_file, "w") creates the file, or raises
MetaOpen ==
    /\ Main("meta_open")
    /\ \E ok \in BOOLEAN :
          IF ok
          THEN /\ disk' = disk \cup {meta_file}
               /\ written' = written \cup {meta_file}
               /\ pc' = "meta_write"
          ELSE /\ pc' = "except"
               /\ UNCHANGED <<disk, written>>
    /\ UNCHANGED <<inputVars, duration, outputVars, runVars, batchVars,
                   historyVars, result, stop_requested, trackerVars,
                   current_process, procVars, call, success, loopVars, sigVars>>

\* splitter.py:233-266: the writes and the close, or an exception among them;
\* then the remux call of line 288
MetaWrite ==
    /\ Main("meta_write")
    /\ \E ok \in BOOLEAN :
          IF ok
          THEN call' = "mux" /\ mux_calls' = mux_calls + 1 /\ pc' = "ff_check"
          ELSE UNCHANGED <<call, mux_calls>> /\ pc' = "except"
    /\ UNCHANGED <<inputVars, duration, outputVars, runVars, batchVars,
                   extract_calls, tool_failed, seg_raised, chapters_probed,
                   result,
                   stop_requested, trackerVars, current_process, disk,
                   procVars, success, loopVars, sigVars, written>>

\* splitter.py:295, 300-302
VerifyOutput ==
    /\ Main("verify")
    /\ IF output_name \in disk
       THEN pc' = "getsize" /\ UNCHANGED all_parts_created
       ELSE pc' = "finally" /\ all_parts_created' = FALSE
    /\ UNCHANGED <<inputVars, duration, outputVars, runVars, batchVars,
                   historyVars, result, stop_requested, trackerVars,
                   current_process, disk, procVars, call, success,
                   current_start, end_time, part_num, total_parts,
                   created_files, segments, broke, sigVars, written>>

\* splitter.py:296: os.path.getsize raises when the file is gone
GetSize ==
    /\ Main("getsize")
    /\ pc' = IF output_name \in disk THEN "commit" ELSE "except"
    /\ UNCHANGED <<inputVars, duration, outputVars, runVars, batchVars,
                   historyVars, result, stop_requested, trackerVars,
                   current_process, disk, procVars, call, success, loopVars,
                   sigVars, written>>

\* splitter.py:299 without line 298: the path is not appended to created_files
CommitUnlisted ==
    /\ Main("commit")
    /\ SetTracker(add_file(Tracker, output_name))
    /\ pc' = "finally"
    /\ UNCHANGED <<inputVars, duration, outputVars, runVars, batchVars,
                   historyVars, result, stop_requested, current_process, disk,
                   procVars, call, success, loopVars, sigVars, written>>

\* splitter.py:298-299
Commit ==
    /\ Main("commit")
    /\ created_files' = Append(created_files, output_name)
    /\ SetTracker(add_file(Tracker, output_name))
    /\ pc' = "finally"
    /\ UNCHANGED <<inputVars, duration, outputVars, runVars, batchVars,
                   historyVars, result, stop_requested, current_process, disk,
                   procVars, call, success, current_start, end_time, part_num,
                   total_parts, all_parts_created, segments, broke, sigVars,
                   written>>

\* remove_partial without the os.remove: the cancelled segment's output stays
remove_partial_skipped(d, f) == d

\* splitter.py:309-313: os.remove(output_name) if it exists
remove_partial(d, f) == d \ {f}

\* splitter.py:304-314
Interrupted ==
    /\ Main("interrupted")
    /\ all_parts_created' = FALSE
    /\ disk' = remove_partial(disk, output_name)
    /\ broke' = TRUE
    /\ pc' = "finally"
    /\ UNCHANGED <<inputVars, duration, outputVars, runVars, batchVars,
                   historyVars, result, stop_requested, trackerVars,
                   current_process, procVars, call, success, current_start,
                   end_time, part_num, total_parts, created_files, segments,
                   sigVars, written>>

\* splitter.py:316-318
Except ==
    /\ Main("except")
    /\ all_parts_created' = FALSE
    /\ seg_raised' = TRUE
    /\ pc' = "finally"
    /\ UNCHANGED <<inputVars, duration, outputVars, runVars, batchVars,
                   extract_calls, mux_calls, tool_failed, chapters_probed,
                   result, stop_requested, trackerVars, current_process, disk,
                   procVars, call, success, current_start, end_time, part_num,
                   total_parts, created_files, segments, broke, sigVars,
                   written>>

\* The finally block without the os.remove of lines 324-328: the temporary
\* files are only dropped from the tracking
finally_block_keeps_temps(t, d) ==
    LET r == finish_file(finish_file(finish_file(t, temp_audio), meta_file), output_name)
    IN [cb |-> r.cb, ip |-> r.ip, disk |-> d]

\* The finally block of splitter.py:320-330 applied to tracker t and disk d
finally_block(t, d) ==
    LET r == finish_file(finish_file(finish_file(t, temp_audio), meta_file), output_name)
    IN [cb |-> r.cb, ip |-> r.ip, disk |-> d \ {temp_audio, meta_file}]

\* splitter.py:320-330, then `break` or the advance of lines 341-342
Finally ==
    /\ Main("finally")
    /\ LET r == finally_block(Tracker, disk)
       IN SetTracker(r) /\ disk' = r.disk
    /\ call' = "none"
    /\ IF broke
       THEN pc' = "post" /\ UNCHANGED <<current_start, part_num>>
       ELSE /\ current_start' = end_time
            /\ part_num' = part_num + 1
            /\ pc' = "loop"
    /\ UNCHANGED <<inputVars, duration, outputVars, runVars, batchVars,
                   historyVars, result, stop_requested, current_process,
                   procVars, success, end_time, total_parts,
                   all_parts_created, created_files, segments, broke, sigVars,
                   written>>

\* splitter.py:345-355 without line 355: current_book_files is left as it is
PostCheckKeepsList ==
    /\ Main("post")
    /\ IF ~all_parts_created \/ stop_requested
       THEN /\ disk' = delete_created(disk, created_files)
            /\ pc' = "post_decide"
            /\ UNCHANGED <<current_book_files, result>>
       ELSE /\ pc' = "post_success"
            /\ UNCHANGED <<disk, current_book_files, result>>
    /\ UNCHANGED <<inputVars, duration, outputVars, runVars, batchVars,
                   historyVars, stop_requested, in_progress_files,
                   current_process, procVars, call, success, loopVars,
                   sigVars, written>>

\* splitter.py:345-355 without the test of the stop flag in line 345
PostCheckFlagOnly ==
    /\ Main("post")
    /\ IF ~all_parts_created
       THEN /\ disk' = delete_created(disk, created_files)
            /\ current_book_files' = <<>>
            /\ pc' = "post_decide"
            /\ UNCHANGED result
       ELSE /\ pc' = "post_success"
            /\ UNCHANGED <<disk, current_book_files, result>>
    /\ UNCHANGED <<inputVars, duration, outputVars, runVars, batchVars,
                   historyVars, stop_requested, in_progress_files,
                   current_process, procVars, call, success, loopVars,
                   sigVars, written>>

\* splitter.py:345-355
PostCheck ==
    /\ Main("post")
    /\ IF ~all_parts_created \/ stop_requested
       THEN /\ disk' = delete_created(disk, created_files)
            /\ current_book_files' = <<>>
            /\ pc' = "post_decide"
            /\ UNCHANGED result
       ELSE /\ pc' = "post_success"
            /\ UNCHANGED <<disk, current_book_files, result>>
    /\ UNCHANGED <<inputVars, duration, outputVars, runVars, batchVars,
                   historyVars, stop_requested, in_progress_files,
                   current_process, procVars, call, success, loopVars,
                   sigVars, written>>

\* splitter.py:361-368
PostSuccess ==
    /\ Main("post_success")
    /\ Return("success")
    /\ UNCHANGED <<inputVars, duration, outputVars, runVars, batchVars,
                   historyVars, stop_requested, trackerVars, current_process,
                   disk, procVars, call, success, loopVars, sigVars, written>>

\* splitter.py:359 without the test of lines 357-358: always "failed"
PostDecideFailed ==
    /\ Main("post_decide")
    /\ Return("failed")
    /\ UNCHANGED <<inputVars, duration, outputVars, runVars, batchVars,
                   historyVars, stop_requested, trackerVars, current_process,
                   disk, procVars, call, success, loopVars, sigVars, written>>

\* splitter.py:357-359
PostDecide ==
    /\ Main("post_decide")
    /\ Return(IF stop_requested THEN "stopped" ELSE "failed")
    /\ UNCHANGED <<inputVars, duration, outputVars, runVars, batchVars,
                   historyVars, stop_requested, trackerVars, current_process,
                   disk, procVars, call, success, loopVars, sigVars, written>>

(* The delegated ffmpeg subprocess, running beside the main thread *)

\* The file the running subprocess writes: temp_audio (extract) or output_name (remux)
proc_target == IF call = "extract" THEN temp_audio ELSE output_name

\* The subprocess opens its output file (ffmpeg -y: creates or overwrites it)
ProcWrite ==
    /\ proc = "running"
    /\ ~proc_wrote
    /\ proc_wrote' = TRUE
    /\ disk' = disk \cup {proc_target}
    /\ written' = written \cup {proc_target}
    /\ UNCHANGED <<inputVars, duration, outputVars, pc, runVars, batchVars,
                   historyVars, result, stop_requested, trackerVars,
                   current_process, proc, returncode, call, success, loopVars,
                   sigVars>>

\* The subprocess ends by itself, with exit code 0 or not
ProcExit ==
    /\ proc = "running"
    /\ proc' = "exited"
    /\ \E rc \in {0, 1} : returncode' = rc
    /\ UNCHANGED <<inputVars, duration, outputVars, pc, runVars, batchVars,
                   historyVars, result, stop_requested, trackerVars,
                   current_process, disk, proc_wrote, call, success, loopVars,
                   sigVars, written>>

(* _signal_handler: processing_state.py:97-115.  Python runs it in the main  *)
(* thread between two bytecodes; a SIGINT that arrives while it runs starts  *)
(* a nested invocation.                                                      *)

\* Positions of the main thread outside perform_split
Terminal == {"returned", "raised", "exited", "b_check", "b_call", "b_done"}

\* Positions at which the model follows the process no further
Halted == {"raised", "exited", "b_done"}

Top == hstack[Len(hstack)]
SetTop(h) == hstack' = [hstack EXCEPT ![Len(hstack)] = h]

\* processing_state.py:99, stop not yet requested: the graceful path begins
Signal ==
    /\ signals < MaxSignals
    /\ pc \notin Halted
    /\ ~stop_requested
    /\ signals' = signals + 1
    /\ hstack' = Append(hstack, "kill")
    /\ first_signal' = IF first_signal = NoSignal
                       THEN [pc |-> pc, part |-> part_num]
                       ELSE first_signal
    /\ UNCHANGED <<inputVars, duration, outputVars, pc, runVars, batchVars,
                   historyVars, result, stop_requested, trackerVars,
                   current_process, disk, procVars, call, success, loopVars,
                   written>>

\* Positions of the main thread inside the try block of splitter.py:202-302
TryPcs ==
    {"ff_check", "ff_popen", "ff_setproc", "ff_communicate", "ff_clearproc",
     "ff_result", "after_ffmpeg", "meta_open", "meta_write", "verify", "getsize",
     "commit", "interrupted", "except"}

\* processing_state.py:99-102, stop already requested: sys.exit(1).  SystemExit
\* unwinds the main thread; only the finally block of splitter.py:320-330 runs.
ForceQuit ==
    /\ signals < MaxSignals
    /\ pc \notin Halted
    /\ stop_requested
    /\ signals' = signals + 1
    /\ hstack' = <<>>
    /\ pc' = "exited"
    /\ result' = "exit"
    /\ IF pc \in TryPcs
       THEN LET r == finally_block(Tracker, disk)
            IN SetTracker(r) /\ disk' = r.disk
       ELSE UNCHANGED <<trackerVars, disk>>
    /\ UNCHANGED <<inputVars, duration, outputVars, runVars, batchVars,
                   historyVars, stop_requested, current_process, procVars,
                   call, success, loopVars, first_signal, written>>

\* processing_state.py:49-60, called at line 109
kill_current_process ==
    IF current_process
    THEN /\ current_process' = FALSE
         /\ IF proc = "running"
            THEN proc' = "exited" /\ returncode' = 1
            ELSE UNCHANGED <<proc, returncode>>
    ELSE UNCHANGED <<current_process, proc, returncode>>

HandlerKill ==
    /\ hstack # <<>> /\ Top = "kill"
    /\ kill_current_process
    /\ SetTop("cleanup")
    /\ UNCHANGED <<inputVars, duration, outputVars, pc, runVars, batchVars,
                   historyVars, result, stop_requested, trackerVars, disk,
                   proc_wrote, call, success, loopVars, signals, first_signal,
                   written>>

\* processing_state.py:112
HandlerCleanup ==
    /\ hstack # <<>> /\ Top = "cleanup"
    /\ LET r == cleanup_in_progress(Tracker, disk, {})
       IN SetTracker(r) /\ disk' = r.disk
    /\ SetTop("request")
    /\ UNCHANGED <<inputVars, duration, outputVars, pc, runVars, batchVars,
                   historyVars, result, stop_requested, current_process,
                   procVars, call, success, loopVars, signals, first_signal,
                   written>>

\* processing_state.py:115, and the handler returns
HandlerRequestStop ==
    /\ hstack # <<>> /\ Top = "request"
    /\ stop_requested' = TRUE
    /\ hstack' = SubSeq(hstack, 1, Len(hstack) - 1)
    /\ UNCHANGED <<inputVars, duration, outputVars, pc, runVars, batchVars,
                   historyVars, result, trackerVars, current_process, disk,
                   procVars, call, success, loopVars, signals, first_signal,
                   written>>

\* The program is started again over the same catalog, sources and disk
NextRun ==
    /\ pc \in {"b_done", "raised"}
    /\ run < MaxRuns
    /\ run' = run + 1
    /\ prev_result' = result
    /\ pc' = "b_check"
    /\ result' = "none"
    /\ stop_requested' = FALSE /\ current_process' = FALSE
    /\ current_book_files' = <<>> /\ in_progress_files' = <<>>
    /\ proc' = "none" /\ returncode' = 0 /\ proc_wrote' = FALSE
    /\ call' = "none" /\ success' = FALSE
    /\ current_start' = 0 /\ end_time' = 0 /\ part_num' = 1 /\ total_parts' = 0
    /\ all_parts_created' = TRUE /\ created_files' = <<>> /\ segments' = <<>>
    /\ broke' = FALSE /\ hstack' = <<>> /\ signals' = 0
    /\ first_signal' = NoSignal
    /\ written' = {}
    /\ book_idx' = 0 /\ completed' = 0 /\ failed' = 0 /\ skipped' = 0
    /\ failed_books' = <<>> /\ stopped_early' = FALSE /\ outcomes' = <<>>
    /\ extract_calls' = 0 /\ mux_calls' = 0
    /\ tool_failed' = FALSE /\ seg_raised' = FALSE
    /\ chapters_probed' = FALSE
    /\ duration' = 0 /\ safe_title' = <<>>
    /\ UNCHANGED <<inputVars, meta, reported, disk, total>>

Next ==
    \/ BatchCheck \/ BatchCall \/ Tally
    \/ Begin \/ Decide
    \/ CopyCheckExists \/ CopyTrack \/ CopyOpen \/ CopyWrite \/ CopyFinish
    \/ CopyExcept \/ CopyReraise \/ CopyStopCheck \/ CopyDone
    \/ Preflight \/ LoopTop \/ TrackFiles
    \/ FfCheckStop \/ FfPopen \/ FfSetProcess \/ FfCommunicate \/ FfClearProcess
    \/ FfResult \/ AfterFfmpeg
    \/ MetaOpen \/ MetaWrite \/ VerifyOutput \/ GetSize \/ Commit
    \/ Interrupted \/ Except \/ Finally \/ PostCheck \/ PostDecide
    \/ PostSuccess
    \/ ProcWrite \/ ProcExit
    \/ Signal \/ ForceQuit \/ HandlerKill \/ HandlerCleanup \/ HandlerRequestStop
    \/ NextRun

Spec == Init /\ [][Next]_vars

-----------------------------------------------------------------------------
(* MetaSpec: perform_split up to the resolution of the source, then the     *)
(* metadata of one segment, for any author fields and any chapters          *)

MetaBooks ==
    [AuthorNames : {Absent, Null, Str(""), Str("C"), List(<<>>), List(<<"A", "B">>)},
     Author : {Absent, Str(""), Str("Z")}]

\* ffmpeg.py:75-86: StartOffset = start_time, LengthInSeconds = end_time -
\* start_time (ffmpeg reads no chapter that ends before it starts)
MetaChapterLists ==
    SeqsUpTo([StartOffset : 0..MaxMetaOffset, LengthInSeconds : 0..MaxMetaLength],
             MaxMetaChapters)

\* Either the author fields vary or the chapters do
MetaInputs == (MetaBooks \X {<<>>}) \cup ({PlainBook} \X MetaChapterLists)

MetaInit ==
    /\ input_file = "ok"
    /\ \E in \in MetaInputs : book = in[1] /\ chapters = in[2]
    /\ current_start \in 0..MaxMetaOffset
    /\ end_time \in (current_start + 1)..(MaxMetaOffset + 1)
    /\ probed_duration = 0 /\ LengthInMinutes = 0 /\ duration = 0
    /\ SPLIT_LIMIT_SECS = 1
    /\ meta = NoMeta /\ reported = {}
    /\ title = PlainTitle /\ safe_title = <<>>
    /\ pc = "start"
    /\ run = 1 /\ result = "none" /\ prev_result = "none"
    /\ stop_requested = FALSE /\ current_process = FALSE
    /\ current_book_files = <<>> /\ in_progress_files = <<>> /\ disk = {}
    /\ proc = "none" /\ returncode = 0 /\ proc_wrote = FALSE
    /\ call = "none" /\ success = FALSE
    /\ part_num = 1 /\ total_parts = 0
    /\ all_parts_created = TRUE /\ created_files = <<>> /\ segments = <<>>
    /\ broke = FALSE /\ hstack = <<>> /\ signals = 0 /\ first_signal = NoSignal
    /\ written = {}
    /\ BatchStart(1)
    /\ HistoryStart

\* splitter.py:232-266 for the segment (current_start, end_time)
SegmentMetadata ==
    /\ Main("probe")
    /\ meta' = metadata(book, chapters, current_start, end_time)
    /\ pc' = "meta_done"
    /\ UNCHANGED <<inputVars, duration, reported, safe_title, runVars,
                   batchVars, historyVars, result, stop_requested, trackerVars,
                   current_process, disk, procVars, call, success, loopVars,
                   sigVars, written>>

MetaNext == Begin \/ SegmentMetadata

MetaSpec == MetaInit /\ [][MetaNext]_vars

-----------------------------------------------------------------------------
(* QuietSpec: perform_split on one item with no SIGINT, in seconds, for     *)
(* probed durations on both sides of limit * 1.1 and for failed probes      *)
(* with a catalog length on either side                                     *)

QuietLimit == 120
QuietDurations == {0, 132, 133}
QuietMinutes == {0, 2, 3}
QuietChapterLists == {<<>>, <<[StartOffset |-> 125]>>}

QuietInit ==
    /\ input_file \in {"missing", "ok"}
    /\ book = PlainBook
    /\ probed_duration \in QuietDurations
    /\ LengthInMinutes \in QuietMinutes
    /\ duration = 0
    /\ meta = NoMeta /\ reported = {}
    /\ title = PlainTitle /\ safe_title = <<>>
    /\ SPLIT_LIMIT_SECS = QuietLimit
    /\ chapters \in QuietChapterLists
    /\ disk \in InitialDisks
    /\ pc = "b_check"
    /\ run = 1 /\ result = "none" /\ prev_result = "none"
    /\ stop_requested = FALSE /\ current_process = FALSE
    /\ current_book_files = <<>> /\ in_progress_files = <<>>
    /\ proc = "none" /\ returncode = 0 /\ proc_wrote = FALSE
    /\ call = "none" /\ success = FALSE
    /\ current_start = 0 /\ end_time = 0 /\ part_num = 1 /\ total_parts = 0
    /\ all_parts_created = TRUE /\ created_files = <<>> /\ segments = <<>>
    /\ broke = FALSE /\ hstack = <<>> /\ signals = 0 /\ first_signal = NoSignal
    /\ written = {}
    /\ BatchStart(1)
    /\ HistoryStart

QuietNext ==
    \/ BatchCheck \/ BatchCall \/ Tally
    \/ Begin \/ Decide
    \/ CopyCheckExists \/ CopyTrack \/ CopyOpen \/ CopyWrite \/ CopyFinish
    \/ CopyExcept \/ CopyReraise \/ CopyStopCheck \/ CopyDone
    \/ Preflight \/ LoopTop \/ TrackFiles
    \/ FfCheckStop \/ FfPopen \/ FfSetProcess \/ FfCommunicate \/ FfClearProcess
    \/ FfResult \/ AfterFfmpeg
    \/ MetaOpen \/ MetaWrite \/ VerifyOutput \/ GetSize \/ Commit
    \/ Except \/ Finally \/ PostCheck \/ PostDecide
    \/ PostSuccess
    \/ ProcWrite \/ ProcExit

QuietSpec == QuietInit /\ [][QuietNext]_vars

-----------------------------------------------------------------------------
(* BatchSpec: the loop of _process_books over several books, perform_split  *)
(* reduced to the value it returns and to the SIGINT it may have seen       *)

\* splitter.py:16: the values perform_split returns
Returned == {"success", "failed", "skipped", "stopped"}

BatchInit ==
    /\ input_file = "ok" /\ duration = 0 /\ SPLIT_LIMIT_SECS = 1 /\ chapters = <<>>
    /\ book = PlainBook /\ probed_duration = 0 /\ LengthInMinutes = 0
    /\ meta = NoMeta /\ reported = {}
    /\ title = PlainTitle /\ safe_title = <<>>
    /\ run = 1 /\ result = "none" /\ prev_result = "none"
    /\ stop_requested = FALSE /\ current_process = FALSE
    /\ current_book_files = <<>> /\ in_progress_files = <<>> /\ disk = {}
    /\ proc = "none" /\ returncode = 0 /\ proc_wrote = FALSE
    /\ call = "none" /\ success = FALSE
    /\ current_start = 0 /\ end_time = 0 /\ part_num = 1 /\ total_parts = 0
    /\ all_parts_created = TRUE /\ created_files = <<>> /\ segments = <<>>
    /\ broke = FALSE /\ hstack = <<>> /\ signals = 0 /\ first_signal = NoSignal
    /\ written = {}
    /\ \E n \in 1..MaxBooks : BatchStart(n)
    /\ HistoryStart
    /\ pc = "b_check"

\* orchestrator.py:205-211: perform_split runs and returns; a SIGINT may
\* arrive meanwhile, and "stopped" is returned only when the flag is set
BatchPerformSplit ==
    /\ Main("b_call")
    /\ \E sigint \in BOOLEAN, r \in Returned :
          /\ r = "stopped" => (sigint \/ stop_requested)
          /\ stop_requested' = IF sigint THEN TRUE ELSE stop_requested
          /\ result' = r
    /\ pc' = "returned"
    /\ UNCHANGED <<inputVars, duration, outputVars, runVars, batchVars,
                   historyVars, trackerVars, current_process, disk, procVars,
                   call, success, loopVars, sigVars, written>>

BatchNext == BatchCheck \/ BatchPerformSplit \/ Tally

BatchSpec == BatchInit /\ [][BatchNext]_vars

\* orchestrator.py:249: the number printed by "Stopped early. N book(s) were
\* not processed."
remaining == total - (completed + failed - skipped)

-----------------------------------------------------------------------------
(* SanitizeSpec: the entry of perform_split for any title over the nine     *)
(* characters of the class and three others                                *)

TitleChars == InvalidChars \cup {"T", " ", "."}

SanitizeInit ==
    /\ input_file = "ok" /\ duration = 0 /\ SPLIT_LIMIT_SECS = 1 /\ chapters = <<>>
    /\ book = PlainBook /\ probed_duration = 0 /\ LengthInMinutes = 0
    /\ meta = NoMeta /\ reported = {}
    /\ title \in SeqsUpTo(TitleChars, MaxTitleLen) /\ safe_title = <<>>
    /\ run = 1 /\ result = "none" /\ prev_result = "none"
    /\ stop_requested = FALSE /\ current_process = FALSE
    /\ current_book_files = <<>> /\ in_progress_files = <<>> /\ disk = {}
    /\ proc = "none" /\ returncode = 0 /\ proc_wrote = FALSE
    /\ call = "none" /\ success = FALSE
    /\ current_start = 0 /\ end_time = 0 /\ part_num = 1 /\ total_parts = 0
    /\ all_parts_created = TRUE /\ created_files = <<>> /\ segments = <<>>
    /\ broke = FALSE /\ hstack = <<>> /\ signals = 0 /\ first_signal = NoSignal
    /\ written = {}
    /\ BatchStart(1)
    /\ HistoryStart
    /\ pc = "start"

SanitizeNext == Begin

SanitizeSpec == SanitizeInit /\ [][SanitizeNext]_vars

-----------------------------------------------------------------------------
(* Claims about the planner (PlanSpec) *)

PlanFinished == pc \in {"copy", "post"}

\* The segment emitted from `start` was cut by the tail-merge rule
IsTailStep(start) == BelowBuffer(duration - start, SPLIT_LIMIT_SECS)

\* The chapter nearest to start + limit does not lie after start
NearestNotAfter(start) ==
    /\ chapters # <<>>
    /\ best_chap(chapters, start + SPLIT_LIMIT_SECS).StartOffset <= start

\* C4: for every duration > limit * 1.1 and every chapter list, the number of
\* parts calc_actual_parts computes equals the number of segments the loop
\* emitted (part_num - 1 when the loop has ended).
SegmentCountAgreement ==
    pc = "post" => part_num - 1 = calc_actual_parts(duration, SPLIT_LIMIT_SECS)

\* C5: the emitted segments start at 0, are contiguous, each has end > start,
\* none ends past the duration and the last one ends exactly at the duration.
PartitionCoverage ==
    segments # <<>> =>
        /\ segments[1].start = 0
        /\ \A i \in 1..(Len(segments) - 1) : segments[i].end = segments[i + 1].start
        /\ \A i \in 1..Len(segments) :
              segments[i].end > segments[i].start /\ segments[i].end <= duration
        /\ pc = "post" => segments[Len(segments)].end = duration

\* C6: no emitted segment other than the final one is longer than limit * 1.1.
SegmentLengthBound ==
    pc = "post" =>
        \A i \in 1..(Len(segments) - 1) :
            WithinBuffer(segments[i].end - segments[i].start, SPLIT_LIMIT_SECS)

\* C7 as stated: the loop terminates, and whenever the chapter nearest to
\* target is <= pos the segment ends exactly at target = pos + limit.
PlannerTerminationAsStated ==
    /\ <>PlanFinished
    /\ [](\A i \in 1..Len(segments) :
            NearestNotAfter(segments[i].start)
                => segments[i].end = segments[i].start + SPLIT_LIMIT_SECS)

\* C7 amended: the loop terminates, and at every step that is not a tail-merge
\* step, whenever the chapter nearest to target is <= pos the segment ends
\* exactly at target = pos + limit.
PlannerTermination ==
    /\ <>PlanFinished
    /\ [](\A i \in 1..Len(segments) :
            (~IsTailStep(segments[i].start) /\ NearestNotAfter(segments[i].start))
                => segments[i].end = segments[i].start + SPLIT_LIMIT_SECS)

\* C7 witness: the loop has ended after a non-tail step whose nearest chapter
\* was not after pos and that was cut at target.
PlannerGuardedRun ==
    /\ pc = "post"
    /\ \E i \in 1..Len(segments) :
          /\ ~IsTailStep(segments[i].start)
          /\ NearestNotAfter(segments[i].start)
          /\ segments[i].end = segments[i].start + SPLIT_LIMIT_SECS

-----------------------------------------------------------------------------
(* Claims about the tracker (TrackerSpec) *)

Count(s, x) == Cardinality({i \in 1..Len(s) : s[i] = x})

\* C8: after any sequence of tracker operations on any paths, no path is in
\* in_progress_files and in current_book_files at the same time.
TrackerDisjoint ==
    Range(in_progress_files) \cap Range(current_book_files) = {}

\* C9 as stated: add_file(path) is a no-op when path is not in
\* in_progress_files, and calling it twice leaves the tracker as calling it
\* once does (current_book_files holds the path at most once).
CommitIdempotentAsStated ==
    \A f \in TrackerPaths :
        LET t1 == add_file(Tracker, f)
            t2 == add_file(t1, f)
        IN /\ ~Contains(in_progress_files, f) => t1 = Tracker
           /\ t2 = t1
           /\ ~Contains(current_book_files, f) => Count(t2.cb, f) <= 1

\* C9 amended: add_file(path) removes path from in_progress_files when it is
\* there and leaves in_progress_files unchanged when it is not, and in both
\* cases appends path to current_book_files; a second call leaves
\* in_progress_files as the first call left it and appends the path once more.
CommitMovesPath ==
    \A f \in TrackerPaths :
        LET t1 == add_file(Tracker, f)
            t2 == add_file(t1, f)
        IN /\ ~Contains(t1.ip, f)
           /\ ~Contains(in_progress_files, f) => t1.ip = in_progress_files
           /\ Range(t1.ip) = Range(in_progress_files) \ {f}
           /\ t2.ip = t1.ip
           /\ Count(t1.cb, f) = Count(current_book_files, f) + 1
           /\ Count(t2.cb, f) = Count(current_book_files, f) + 2

\* C9 witness: add_file has been called twice for a path
CommittedTwice ==
    \E f \in TrackerPaths :
        Count(current_book_files, f) >= 2 /\ ~Contains(in_progress_files, f)

-----------------------------------------------------------------------------
(* Claims about perform_split (Spec) *)

OutputFiles == {WholeFile} \cup {PartFile(i) : i \in 1..MaxParts}

\* Positions inside one segment: from the tracking of its files to its finally block
InSegmentPcs == {"track", "finally"} \cup TryPcs

\* Positions after a segment has started and before the outcome is decided
UndecidedPcs == InSegmentPcs \cup {"loop", "post", "post_decide"}

\* C1: if the first SIGINT arrives after a segment has started and before the
\* item's outcome is decided, then when perform_split returns the outcome is
\* "stopped" and neither temp_chunk.m4b, temp_meta.txt, the interrupted
\* segment's output nor any part file created in this run is on disk.
CancellationCleanup ==
    (pc = "returned" /\ first_signal.pc \in UndecidedPcs) =>
        /\ result = "stopped"
        /\ temp_audio \notin disk
        /\ meta_file \notin disk
        /\ first_signal.pc \in InSegmentPcs => PartFile(first_signal.part) \notin disk
        /\ \A i \in 1..MaxParts : PartFile(i) \in written => PartFile(i) \notin disk

\* C1 witness: the SIGINT came while the subprocess of the second segment was
\* awaited, after Part 1 had been created; perform_split returned "stopped".
CancelledInSecondSegment ==
    /\ pc = "returned"
    /\ result = "stopped"
    /\ first_signal = [pc |-> "ff_communicate", part |-> 2]
    /\ PartFile(1) \in written
    /\ PartFile(2) \in written

SecondRunSkips ==
    (run > 1 /\ prev_result \in {"success", "skipped"}) =>
        /\ pc \in {"b_check", "b_call", "start", "probe", "copy_check", "preflight", "returned",
                  "b_done", "exited"}
        /\ pc = "returned" => result = "skipped"

\* C10: at every point of the processing of an item, every file this call has
\* created that exists on disk is listed in in_progress_files or in
\* current_book_files.
TrackerListsEveryFile ==
    pc \notin Terminal =>
        \A f \in written \cap disk :
            Contains(in_progress_files, f) \/ Contains(current_book_files, f)

-----------------------------------------------------------------------------
(* Claims about failures and cancellation (Spec) *)

\* C11: a failure while an item is processed makes perform_split return
\* "failed": no exception leaves perform_split, and an item whose source is
\* unresolved, whose extract or remux failed or in whose segment an exception
\* was raised, with no SIGINT, is returned as "failed".
FailureContained ==
    /\ pc # "raised"
    /\ (pc = "returned" /\ first_signal = NoSignal
            /\ (input_file # "ok" \/ tool_failed \/ seg_raised))
        => result = "failed"

\* C12: when the first SIGINT arrives while a delegated subprocess has been
\* started (Popen has returned), then once the handler has requested the stop
\* the subprocess is no longer running: it is never left to end by itself.
InterruptibleSubprocess ==
    (stop_requested /\ first_signal.pc \in {"ff_setproc", "ff_communicate"})
        => proc # "running"

\* C13: a SIGINT that arrives after the first one never starts the graceful
\* kill-and-cleanup path again: at most one graceful invocation of the handler
\* is ever active.
SecondSignalForcesExit == Len(hstack) <= 1

\* C14 as stated: once stop_requested is true, perform_split is not called,
\* no start_file for a new part runs and no extract or remux subprocess starts.
NoNewWorkAfterStop ==
    [][stop_requested =>
          /\ ~(pc = "b_call" /\ pc' = "start")
          /\ ~(pc = "track" /\ pc' = "ff_check")
          /\ ~(proc # "running" /\ proc' = "running")]_vars

\* C14 amended: each check of the flag stops new work once stop_requested is
\* true: the batch loop's check takes up no further item, the loop-head check
\* begins no further segment and run_ffmpeg's entry check starts no subprocess
\* (a request that arrives between a check and the work it guards does not
\* prevent that work).
NoNewWorkAfterCheck ==
    [][stop_requested =>
          /\ ~(pc = "b_check" /\ pc' = "b_call")
          /\ ~(pc = "loop" /\ pc' = "track")
          /\ ~(pc = "ff_check" /\ pc' = "ff_popen")]_vars

\* C14 witness: the first SIGINT came while the metadata file was written, and
\* run_ffmpeg, called for the remux, has returned at its entry check without
\* starting a subprocess.
RemuxNotStarted ==
    /\ first_signal.pc \in {"meta_open", "meta_write"}
    /\ stop_requested
    /\ pc = "after_ffmpeg"
    /\ call = "mux"
    /\ ~success
    /\ proc = "none"

\* Positions of the copy of an unsplit item: splitter.py:67-84
CopyPcs ==
    {"copy_track", "copy_open", "copying", "copy_finish", "copy_except",
     "copy_reraise", "copy_stopcheck"}

\* perform_split has returned an outcome
Outcomes == {"success", "failed", "skipped", "stopped"}

\* Positions after the last stop check of a completed item: splitter.py:86-95
\* and 361-368
DecidedPcs == {"copy_done", "post_success"}

\* C15: if the first SIGINT arrives while the item's segments or its copy are
\* being processed, the outcome perform_split returns is "stopped", never
\* "failed", and the item is not counted or listed as failed by the batch (a
\* SIGINT after the last stop check of a completed item leaves it "success").
CancellationNotFailure ==
    /\ (first_signal.pc \in UndecidedPcs \cup CopyPcs /\ result \in Outcomes) =>
            /\ result = "stopped"
            /\ failed = 0
            /\ failed_books = <<>>
    /\ (first_signal.pc \in DecidedPcs /\ result \in Outcomes) =>
            /\ result = "success"
            /\ failed_books = <<>>

\* C15 witness: a tool call of the item had failed, then the SIGINT came inside
\* a segment; the batch has counted the outcome "stopped" and stopped early.
StoppedAfterToolFailure ==
    /\ tool_failed
    /\ first_signal.pc \in InSegmentPcs
    /\ pc = "b_done"
    /\ result = "stopped"
    /\ stopped_early
    /\ failed_books = <<>>

CopyCommitted ==
    /\ (pc = "returned" /\ result = "success" /\ WholeFile \in written) =>
            /\ Contains(current_book_files, WholeFile)
            /\ ~Contains(in_progress_files, WholeFile)
    /\ (pc = "returned" /\ first_signal.pc \in CopyPcs) =>
            /\ result = "stopped"
            /\ WholeFile \notin disk

-----------------------------------------------------------------------------
(* Claims about the boundaries (PlanSpec) *)

\* C18: at every step of the split loop with duration - pos < limit * 1.1 the
\* segment emitted is (pos, duration) and it is the last one: no segment is
\* emitted after it.
TailMerge ==
    \A i \in 1..Len(segments) :
        10 * (duration - segments[i].start) < 11 * SPLIT_LIMIT_SECS =>
            /\ segments[i].end = duration
            /\ i = Len(segments)
            /\ pc = "loop" => ~(current_start < duration)

\* C18 witness: the loop has ended with a tail segment exactly as long as the
\* limit (inside the 10% buffer), while the chapter nearest to its target lies
\* elsewhere than at the end of the item.
TailSegmentInBuffer ==
    /\ pc = "post"
    /\ Len(segments) >= 2
    /\ LET last == segments[Len(segments)]
       IN /\ duration - last.start = SPLIT_LIMIT_SECS
          /\ last.end = duration
          /\ chapters # <<>>
          /\ \A k \in 1..Len(chapters) : chapters[k].StartOffset # duration

\* Distance of chapter k from the target of the step that starts at `start`
ChapterDistance(k, start) ==
    Abs(chapters[k].StartOffset - (start + SPLIT_LIMIT_SECS))

\* C19: at a non-tail step with chapters, the cut chosen is the StartOffset of
\* the chapter nearest to pos + limit, the earliest in the list among equally
\* near ones (it becomes the segment's end when it lies after pos; otherwise
\* the progress guard puts the end at pos + limit); with no chapters the end
\* is pos + limit.
NearestChapterCut ==
    \A i \in 1..Len(segments) :
        LET start == segments[i].start
            target == start + SPLIT_LIMIT_SECS
        IN ~IsTailStep(start) =>
              IF chapters = <<>>
              THEN segments[i].end = target
              ELSE \E k \in 1..Len(chapters) :
                      /\ \A j \in 1..Len(chapters) :
                            ChapterDistance(k, start) <= ChapterDistance(j, start)
                      /\ \A j \in 1..(k - 1) :
                            ChapterDistance(j, start) > ChapterDistance(k, start)
                      /\ segments[i].end =
                            IF chapters[k].StartOffset > start
                            THEN chapters[k].StartOffset
                            ELSE target

\* C19 witness: the loop has ended after a first step at which two chapters
\* with different offsets were equally near the target and the segment was
\* cut at the one listed first.
TieCutAtFirstListed ==
    /\ pc = "post"
    /\ Len(chapters) = 2
    /\ chapters[1].StartOffset # chapters[2].StartOffset
    /\ ChapterDistance(1, 0) = ChapterDistance(2, 0)
    /\ ~IsTailStep(0)
    /\ segments[1].end = chapters[1].StartOffset
    /\ chapters[2].StartOffset > 0

-----------------------------------------------------------------------------
(* Claims about the output names (Spec) *)

\* C20: the k-th emitted segment is written to "T - Part k.m4b": the remux of
\* segment k writes Part k, only parts 1..k have been written once k segments
\* were emitted, the created files are part files in increasing order without
\* repeats, and on "success" they are exactly Part 1 .. Part k; the pre-flight
\* check skips the item exactly when Part 1 .. Part n all exist, n being the
\* number of parts calc_actual_parts expects.
OutputNaming ==
    /\ (call = "mux" /\ proc # "none" /\ proc_wrote) =>
            PartFile(Len(segments)) \in written
    /\ \A i \in 1..MaxParts : PartFile(i) \in written => i <= Len(segments)
    /\ \A j \in 1..Len(created_files) :
            /\ \E i \in 1..Len(segments) : created_files[j] = PartFile(i)
            /\ j > 1 => created_files[j - 1][2] < created_files[j][2]
    /\ (pc = "returned" /\ result = "success" /\ segments # <<>>) =>
            created_files = [k \in 1..Len(segments) |-> PartFile(k)]
    /\ (pc = "returned" /\ result = "skipped"
            /\ ~WithinBuffer(duration, SPLIT_LIMIT_SECS)) =>
            /\ total_parts = calc_actual_parts(duration, SPLIT_LIMIT_SECS)
            /\ \A i \in 1..total_parts : PartFile(i) \in disk
    /\ (pc = "loop" /\ segments = <<>>) =>
            \E i \in 1..total_parts : PartFile(i) \notin disk

\* C20 witness: an item of three segments has been split with "success" into
\* Part 1, Part 2 and Part 3, written in this order.
ThreePartsNamedInOrder ==
    /\ pc = "returned"
    /\ result = "success"
    /\ Len(segments) = 3
    /\ created_files = <<PartFile(1), PartFile(2), PartFile(3)>>
    /\ {PartFile(1), PartFile(2), PartFile(3)} \subseteq written \cap disk

-----------------------------------------------------------------------------
(* Claims about the source of an item (Spec) *)

\* Positions of the main thread before the probes of splitter.py:40 and after
\* the return of perform_split
UnprobedPcs == {"b_check", "b_call", "start", "returned", "b_done", "exited"}

\* C21: when no source file is resolved for the item, or the resolved path
\* does not exist, perform_split returns "failed", no probe, extract or remux
\* is started, and no file is created or deleted from the call to the end of
\* the run.
UnresolvableSource ==
    /\ [](input_file # "ok" =>
            /\ pc \in UnprobedPcs
            /\ pc = "returned" => result = "failed"
            /\ written = {}
            /\ proc = "none" /\ ~current_process
            /\ extract_calls = 0 /\ mux_calls = 0)
    /\ [][input_file # "ok" => disk' = disk]_vars

\* C21 witness: the resolved path did not exist; perform_split has returned
\* "failed" although a SIGINT was handled meanwhile, and the output an
\* earlier run left is still on disk.
MissingSourceFailed ==
    /\ input_file = "missing"
    /\ pc = "returned"
    /\ result = "failed"
    /\ stop_requested
    /\ disk # {}

-----------------------------------------------------------------------------
(* Claims about the metadata (MetaSpec) *)

\* The artist the catalog entry calls for
NamedArtist(b) ==
    IF b.AuthorNames.kind = "list" /\ b.AuthorNames.items # <<>>
    THEN Head(b.AuthorNames.items)
    ELSE IF b.AuthorNames.kind = "str" /\ b.AuthorNames.text # ""
    THEN b.AuthorNames.text
    ELSE IF b.Author.kind = "str" /\ b.Author.text # ""
    THEN b.Author.text
    ELSE "Unknown"

\* C22: for every catalog entry the segment metadata is written, and its
\* artist is the first element of AuthorNames when that is a non-empty list,
\* AuthorNames itself when it is a non-empty string, otherwise the Author
\* field when present and non-empty, otherwise "Unknown".
AuthorResolution ==
    /\ pc # "raised"
    /\ pc = "meta_done" => meta.artist = NamedArtist(book)

\* The source chapter c starts inside the segment written
InSegment(c) == current_start <= c.StartOffset /\ c.StartOffset < end_time

\* C23: the metadata of the segment (start, end) holds one chapter block for
\* every source chapter with start <= StartOffset < end and none for the
\* others; the block's START is (StartOffset - start) * 1000 ms (twice START
\* is the difference in half milliseconds), its END is START plus the length
\* in ms, and neither is negative.
ChapterRebasing ==
    pc = "meta_done" =>
        LET inside == SelectSeq(chapters, InSegment)
        IN /\ Len(meta.blocks) = Len(inside)
           /\ \A i \in 1..Len(inside) :
                 /\ 2 * meta.blocks[i].START = inside[i].StartOffset - current_start
                 /\ 2 * meta.blocks[i].END =
                        2 * meta.blocks[i].START + inside[i].LengthInSeconds
                 /\ meta.blocks[i].START >= 0
                 /\ meta.blocks[i].END >= 0

-----------------------------------------------------------------------------
(* Claims about the subprocess handle and the segments (Spec) *)

\* Positions of the main thread inside run_ffmpeg: ffmpeg.py:15-45
RunFfmpegPcs ==
    {"ff_check", "ff_popen", "ff_setproc", "ff_communicate", "ff_clearproc",
     "ff_result"}

\* C24: current_process is set only between the start of a delegated
\* subprocess and the return of that run_ffmpeg call; whenever run_ffmpeg is
\* not executing, however it was left, current_process is None and no
\* delegated subprocess is alive, so that a new one is never started beside
\* a running one.
ProcessHandleLifecycle ==
    /\ current_process => pc \in {"ff_communicate", "ff_clearproc"}
    /\ pc \notin RunFfmpegPcs => ~current_process /\ proc # "running"
    /\ pc = "ff_popen" => proc # "running"

\* Positions of the main thread between two segments and after the last one:
\* no iteration of the split loop is under way
BetweenSegmentsPcs ==
    {"loop", "post", "post_decide", "post_success", "returned", "b_check",
     "b_done"}

TempFiles == {temp_audio, meta_file}

\* C25: once an iteration of the split loop has ended, whether its segment was
\* committed, failed, raised an exception or was cancelled, neither
\* temp_chunk.m4b nor temp_meta.txt is on disk and in_progress_files holds
\* neither of them nor a part file.
SegmentCleanup ==
    (pc \in BetweenSegmentsPcs /\ segments # <<>>) =>
        /\ TempFiles \cap disk = {}
        /\ Range(in_progress_files) \cap (TempFiles \cup OutputFiles) = {}

\* C25 witness: the remux of the first segment was cancelled by a SIGINT after
\* both temporary files had been written, and the loop has been left.
CancelledSegmentCleaned ==
    /\ pc = "post"
    /\ broke
    /\ first_signal = [pc |-> "ff_communicate", part |-> 1]
    /\ TempFiles \subseteq written
    /\ PartFile(1) \in written

\* C26: when the steps of a segment have run to the end of the try block with
\* no SIGINT, its output path is committed (appended to created_files and
\* moved to current_book_files by add_file) if and only if the output file
\* exists at the check after the remux call; when it does not exist the item
\* is marked failed, and perform_split then returns "failed".
SegmentCommitRule ==
    /\ (pc = "finally" /\ call = "mux" /\ first_signal = NoSignal) =>
            /\ output_name \in disk <=>
                    (Contains(created_files, output_name)
                        /\ Contains(current_book_files, output_name))
            /\ output_name \notin disk => ~all_parts_created
    /\ (pc = "returned" /\ first_signal = NoSignal /\ segments # <<>>
            /\ ~all_parts_created) => result = "failed"

\* C26 witness: Part 1 was committed, the remux of the second segment left no
\* output file, and the segment ends uncommitted with the item marked failed.
MissingOutputNotCommitted ==
    /\ pc = "finally"
    /\ call = "mux"
    /\ first_signal = NoSignal
    /\ part_num = 2
    /\ created_files = <<PartFile(1)>>
    /\ current_book_files = <<PartFile(1)>>
    /\ PartFile(1) \in disk
    /\ PartFile(2) \notin disk
    /\ ~all_parts_created

-----------------------------------------------------------------------------
(* Claims about retries (Spec) *)

\* C30: within one run, the k-th extract call is made for the k-th emitted
\* segment, so no segment has two; a remux call is made only after the
\* extract call of the same segment and at most once, whatever the calls
\* return; and perform_split is entered only from the loop over the books,
\* each time for a book the loop has just taken, so no book is passed twice.
NoAutomaticRetries ==
    /\ [](/\ extract_calls <= Len(segments)
          /\ mux_calls <= extract_calls
          /\ book_idx <= total)
    /\ [][run' = run =>
            /\ extract_calls' # extract_calls =>
                  /\ extract_calls' = extract_calls + 1
                  /\ extract_calls' = Len(segments) /\ segments' = segments
                  /\ call = "none" /\ call' = "extract"
            /\ mux_calls' # mux_calls =>
                  /\ mux_calls' = mux_calls + 1
                  /\ call = "extract" /\ call' = "mux"
            /\ call' # call =>
                  \/ extract_calls' # extract_calls
                  \/ mux_calls' # mux_calls
                  \/ call' = "none" /\ pc = "finally"
            /\ (pc' = "start" /\ pc # "start") => pc = "b_call"
            /\ (pc' = "b_call" /\ pc # "b_call") =>
                  pc = "b_check" /\ book_idx' = book_idx + 1]_vars

\* C30 witness: the item was split in three segments, a tool call failed, the
\* item was counted as failed, and there were three extract calls and three
\* remux calls in all.
FailedWithoutRetry ==
    /\ pc = "b_done" /\ result = "failed" /\ failed = 1
    /\ tool_failed /\ ~seg_raised /\ signals = 0
    /\ Len(segments) = 3 /\ extract_calls = 3 /\ mux_calls = 3
    /\ book_idx = 1

-----------------------------------------------------------------------------
(* Claims about the final segment (PlanSpec) *)

\* C29: when the loop has ended with more than one segment and the last one
\* was cut by the tail-merge rule, the last segment is at least 90% of the
\* split limit long.
FinalSegmentLength ==
    (pc = "post" /\ Len(segments) > 1
        /\ IsTailStep(segments[Len(segments)].start)) =>
        LET last == segments[Len(segments)]
        IN 10 * (last.end - last.start) >= 9 * SPLIT_LIMIT_SECS

-----------------------------------------------------------------------------
(* Claims about the chapters of the segments (PlanSpec) *)

\* Number of elements of seq that are in values
RECURSIVE CountIn(_, _)
CountIn(seq, values) ==
    IF seq = <<>> THEN 0
    ELSE (IF Head(seq) \in values THEN 1 ELSE 0) + CountIn(Tail(seq), values)

\* How many times chapter c is written to the metadata of the segments segs
RECURSIVE Appearances(_, _)
Appearances(c, segs) ==
    IF segs = <<>> THEN 0
    ELSE CountIn(part_chapters(chapters, Head(segs).start, Head(segs).end), {c})
         + Appearances(c, Tail(segs))

\* C36: when the loop has ended, every source chapter with
\* 0 <= StartOffset < duration is in the metadata of the emitted segments as
\* many times as it is in the source (once, for a chapter the source holds
\* once), and only in that of a segment with start <= StartOffset < end.
ChaptersDistributed ==
    pc = "post" =>
        \A i \in 1..Len(chapters) :
            LET c == chapters[i]
            IN (0 <= c.StartOffset /\ c.StartOffset < duration) =>
                  /\ Appearances(c, segments) = CountIn(chapters, {c})
                  /\ \A k \in 1..Len(segments) :
                        CountIn(part_chapters(chapters, segments[k].start,
                                              segments[k].end), {c}) > 0
                        => /\ segments[k].start <= c.StartOffset
                           /\ c.StartOffset < segments[k].end

\* C36 witness: two chapters went to different segments, the second one
\* starting exactly where the first segment ends.
ChapterOnBoundary ==
    /\ pc = "post" /\ Len(segments) >= 2
    /\ Len(chapters) = 2
    /\ chapters[1].StartOffset < segments[1].end
    /\ chapters[2].StartOffset = segments[1].end
    /\ chapters[2].StartOffset < duration

-----------------------------------------------------------------------------
(* Claims about the cleanups (TrackerSpec) *)

\* C27: whatever paths os.remove fails on, cleanup_in_progress and
\* cleanup_current_book attempt every tracked path (each one that exists and
\* can be deleted is deleted, each failure is reported), raise nothing, and
\* leave in_progress_files empty; cleanup_current_book leaves
\* current_book_files empty too.
BestEffortCleanup ==
    \A locked \in SUBSET TrackerPaths :
        LET a == cleanup_in_progress(Tracker, disk, locked)
            b == cleanup_current_book(Tracker, disk, locked)
            tracked == Range(in_progress_files) \cup Range(current_book_files)
        IN /\ ~a.raised /\ ~b.raised
           /\ a.disk = disk \ (Range(in_progress_files) \ locked)
           /\ a.reported = Range(in_progress_files) \cap disk \cap locked
           /\ a.ip = <<>> /\ a.cb = current_book_files
           /\ b.disk = disk \ (tracked \ locked)
           /\ b.reported = tracked \cap disk \cap locked
           /\ b.ip = <<>> /\ b.cb = <<>>

\* C27 witness: a cleanup has failed to delete temp_chunk.m4b and reported it,
\* the other files are gone and both lists are empty.
CleanupCompletedAfterFailure ==
    /\ reported = {temp_audio}
    /\ disk = {temp_audio}
    /\ in_progress_files = <<>>
    /\ current_book_files = <<>>

-----------------------------------------------------------------------------
(* Claims about the single-segment threshold (QuietSpec) *)

\* The duration the threshold is applied to, in seconds
CatalogOrProbed ==
    IF probed_duration = 0 THEN LengthInMinutes * 60 ELSE probed_duration

\* C28: an item whose source resolved is handled by the copy-only path (no
\* extract or remux call, nothing written but "T.m4b", which is there on
\* success) exactly when its effective duration, the probed one or
\* LengthInMinutes * 60 when the probe returned 0, is <= limit * 1.1;
\* otherwise it is split in at least two parts; and an item whose probe
\* returned 0 is "failed" only when a tool call failed, the segment code
\* raised, or an output file is missing.
SingleSegmentThreshold ==
    (pc \in {"returned", "raised"} /\ input_file = "ok") =>
        /\ IF 10 * CatalogOrProbed <= 11 * SPLIT_LIMIT_SECS
           THEN /\ total_parts = 0 /\ segments = <<>>
                /\ extract_calls = 0 /\ mux_calls = 0
                /\ written \subseteq {WholeFile}
                /\ result = "success" => WholeFile \in disk
                /\ result # "failed"
           ELSE /\ total_parts >= 2
                /\ WholeFile \notin written
                /\ result = "success" =>
                      /\ extract_calls >= 1
                      /\ \A i \in 1..total_parts : PartFile(i) \in disk
        /\ (probed_duration = 0 /\ result = "failed") =>
              \/ tool_failed
              \/ seg_raised
              \/ \E i \in 1..Len(segments) : PartFile(i) \notin disk

\* C28 witness: the probe returned 0, the catalog's 3 minutes exceed
\* limit * 1.1 = 132 s, and the item was split in two parts with success.
SplitOnCatalogLength ==
    /\ pc = "returned" /\ result = "success"
    /\ probed_duration = 0 /\ LengthInMinutes = 3
    /\ total_parts = 2 /\ Len(segments) = 2
    /\ {PartFile(1), PartFile(2)} \subseteq written

-----------------------------------------------------------------------------
(* Claims about the pre-flight skip (Spec) *)

\* Positions of perform_split up to the two tests for existing output
BeforeSkipPcs == {"start", "probe", "copy_check", "preflight"}

\* The output files the item is expected to have
ExpectedOutputs ==
    IF total_parts = 0 THEN {WholeFile} ELSE {PartFile(i) : i \in 1..total_parts}

\* C31: when perform_split returns "skipped", every expected output file is
\* on disk, the chapters were not probed, no extract or remux call was made,
\* no subprocess exists, no path is in progress and no file was created or
\* overwritten; and up to the test that decides the skip no step changes the
\* disk or the in-progress list, so nothing was deleted either.
PreflightSkipNoEffects ==
    /\ []((pc = "returned" /\ result = "skipped") =>
            /\ ExpectedOutputs \subseteq disk
            /\ ~chapters_probed
            /\ extract_calls = 0 /\ mux_calls = 0
            /\ proc = "none" /\ ~current_process
            /\ in_progress_files = <<>> /\ current_book_files = <<>>
            /\ written = {} /\ segments = <<>>)
    /\ [][(pc \in BeforeSkipPcs) =>
            (disk' = disk /\ in_progress_files' = in_progress_files)]_vars

\* C31 witness: a split item whose three parts the first run created has
\* been skipped by the second run.
SplitItemSkipped ==
    /\ pc = "returned" /\ result = "skipped"
    /\ total_parts = 3
    /\ disk = {PartFile(1), PartFile(2), PartFile(3)}
    /\ run = 2 /\ prev_result = "success"

-----------------------------------------------------------------------------
(* Claims about the batch counters (BatchSpec) *)

\* C32: every book passed to perform_split has one outcome once counted;
\* skipped is the number of "skipped" outcomes and is part of completed;
\* completed + failed is the number of outcomes success, skipped or failed;
\* and when the batch has stopped early, the number reported as not
\* processed is total minus that number.
BatchAccounting ==
    /\ Len(outcomes) <= book_idx /\ book_idx <= total
    /\ pc = "b_check" => Len(outcomes) = book_idx
    /\ skipped = CountIn(outcomes, {"skipped"})
    /\ completed = CountIn(outcomes, {"success", "skipped"})
    /\ failed = CountIn(outcomes, {"failed"})
    /\ completed + failed = CountIn(outcomes, {"success", "skipped", "failed"})
    /\ (pc = "b_done" /\ stopped_early) =>
          remaining = total - CountIn(outcomes, {"success", "skipped", "failed"})

-----------------------------------------------------------------------------
(* Claims about the state at the return of perform_split (Spec) *)

\* C33: when perform_split has returned "success" for a split item, the
\* output file of every emitted segment is on disk, current_book_files is the
\* list of those files in segment order, and in_progress_files is empty,
\* wherever SIGINTs arrived.
SuccessImpliesCompleteOutput ==
    (pc = "returned" /\ result = "success" /\ segments # <<>>) =>
        /\ \A k \in 1..Len(segments) : PartFile(k) \in disk
        /\ current_book_files = [k \in 1..Len(segments) |-> PartFile(k)]
        /\ in_progress_files = <<>>

\* C33 witness: three segments were written and the item succeeded although
\* a SIGINT arrived during the call (after the last test of the stop flag).
SuccessDespiteLateSignal ==
    /\ pc = "returned" /\ result = "success"
    /\ Len(segments) = 3 /\ signals > 0 /\ stop_requested
    /\ first_signal.pc # "returned"
    /\ {PartFile(1), PartFile(2), PartFile(3)} \subseteq written

\* C34: whenever perform_split has returned, whatever the outcome,
\* in_progress_files is empty; and when a split item has returned "failed" or
\* "stopped", current_book_files is empty too.
TrackerStateAtItemEnd ==
    pc = "returned" =>
        /\ in_progress_files = <<>>
        /\ (total_parts > 0 /\ result \in {"failed", "stopped"}) =>
              current_book_files = <<>>

\* C34 witness: a split item was stopped after a part had been committed; the
\* part was deleted again and both lists are empty.
StoppedAfterCommittedPart ==
    /\ pc = "returned" /\ result = "stopped"
    /\ total_parts > 0 /\ created_files # <<>>
    /\ Range(created_files) \cap disk = {}
    /\ in_progress_files = <<>> /\ current_book_files = <<>>

-----------------------------------------------------------------------------
(* Claims about the stop flag (Spec) *)

\* C35: within one run of the program no step of the batch loop, of
\* perform_split, of run_ffmpeg or of the handler (with the tracker
\* operations they call) takes stop_requested from true to false, and the
\* step that calls start_book changes neither stop_requested nor
\* current_process.
StopFlagMonotonic ==
    [][run' = run =>
        /\ stop_requested => stop_requested'
        /\ (pc = "start" /\ pc' # "start") =>
              /\ stop_requested' = stop_requested
              /\ current_process' = current_process]_vars

\* C35 witness: the SIGINT was handled before perform_split called
\* start_book; the flag was still set when the item returned "stopped".
StopFlagSurvivesStartBook ==
    /\ first_signal.pc \in {"b_call", "start"}
    /\ pc = "returned" /\ result = "stopped"
    /\ stop_requested

-----------------------------------------------------------------------------
(* Claims about the order of the handler's steps (Spec) *)

\* Positions at which the main thread reads stop_requested next
\* (orchestrator.py:193; ffmpeg.py:15, 32; splitter.py:77, 80, 155, 227, 290,
\* 345, 357)
ObservePcs ==
    {"b_check", "ff_check", "ff_result", "copy_reraise", "copy_stopcheck",
     "loop", "after_ffmpeg", "post", "post_decide"}

\* C37: while the handler of the first SIGINT runs, stop_requested is still
\* false; once it is past kill_current_process no subprocess is live and
\* current_process is None; its cleanup step deletes every in-progress file
\* and empties in_progress_files, and only the step after that sets the
\* flag; so when the main thread reads a set flag after a single SIGINT,
\* current_process is None.
FirstCancellationOrdering ==
    /\ []((signals = 1 /\ hstack # <<>>) =>
            /\ ~stop_requested
            /\ Top \in {"cleanup", "request"} =>
                  (~current_process /\ proc # "running")
            /\ Top = "request" => in_progress_files = <<>>)
    /\ []((signals = 1 /\ stop_requested /\ hstack = <<>> /\ pc \in ObservePcs)
            => ~current_process)
    /\ [][(signals = 1 /\ signals' = 1 /\ hstack # <<>> /\ Top = "cleanup"
                /\ hstack' # hstack) =>
            /\ hstack' = <<"request">>
            /\ in_progress_files' = <<>>
            /\ disk' = disk \ Range(in_progress_files)]_vars

-----------------------------------------------------------------------------
(* Claims about sanitize_filename (SanitizeSpec) *)

\* C38: the sanitized title holds none of the nine characters, it is the
\* title's other characters in their original order, and sanitizing it again
\* changes nothing.
FilenameSanitization ==
    pc # "start" =>
        /\ \A i \in 1..Len(safe_title) : safe_title[i] \notin InvalidChars
        /\ safe_title = SelectSeq(title, LAMBDA ch : ch \notin InvalidChars)
        /\ sanitize_filename(safe_title) = safe_title

\* C38 witness: the title ":T?" has been sanitized to "T".
TitleSanitized ==
    /\ pc # "start"
    /\ title = <<":", "T", "?">>
    /\ safe_title = <<"T">>

=============================================================================
